---------------------------- MODULE Spec2Model ----------------------------
(***************************************************************************)
(* A model of the text segmentation and speaker-attribution pipeline of    *)
(* the audiobook generator: CharacterRegistry (src/src/character_registry  *)
(* .py) and TextBookParser (src/src/parsers/text_parser.py).               *)
(*                                                                         *)
(* Python strings are modelled as sequences of one-character strings, so   *)
(* that lower(), capitalize(), split(), strip() and the regular            *)
(* expressions are computed character by character.                        *)
(***************************************************************************)
EXTENDS Integers, Sequences, FiniteSets, TLC

VARIABLES
    ai_provider,      \* CharacterRegistry.ai_provider: TRUE when a collaborator is configured
    characters,       \* CharacterRegistry.characters: insertion-ordered dict, a sequence of items
    current_chapter,  \* CharacterRegistry.current_chapter
    held,             \* the reference the registry's caller holds into the registry's objects
    last,             \* what the last registry operation was given, did and returned
    resolved,         \* per descriptor, the name its last AI-path success returned
    calls,            \* number of state-changing registry operations so far
    parser,           \* the outcome of the call TextBookParser(...), None before it
    parsed_paragraph, \* the paragraph _parse_paragraph is given
    parsed_segments,  \* the list _parse_paragraph returned, None before the call
    grouper_input,    \* the list of segments group_segments is given
    grouper_output,   \* the list group_segments returned, None before the call
    splitter_input,   \* the content _parse_chapters is given
    splitter_output,  \* the chapters _parse_chapters returned, None before the call
    numeral_input,    \* the string _roman_to_int is given
    numeral_output,   \* the number _roman_to_int returned, None before the call
    extract_input,    \* the arguments _extract_speaker is given
    extract_output,   \* what _extract_speaker returned, None before the call
    narrator_voice,   \* VoiceAssigner.narrator_voice
    _character_voices, \* VoiceAssigner._character_voices: insertion-ordered dict, a sequence of items
    _available_voices, \* VoiceAssigner._available_voices
    _next_voice_index, \* VoiceAssigner._next_voice_index
    voice_last,       \* what the last VoiceAssigner operation was given and returned
    requested,        \* the characters newly requested since the last set_available_voices, lower-cased, in order
    voiced,           \* the lower-cased characters that were given a voice, by hand or from a pool
    voice_given,      \* per character, the voice last returned since its last assignment by hand
    voice_calls,      \* number of VoiceAssigner operations so far
    workers           \* per worker thread, where its identify_speaker call stands and its locals

registry_vars == <<ai_provider, characters, current_chapter, held, last, resolved, calls>>

parser_vars == <<parser, parsed_paragraph, parsed_segments>>

grouper_vars == <<grouper_input, grouper_output>>

splitter_vars == <<splitter_input, splitter_output>>

numeral_vars == <<numeral_input, numeral_output>>

extract_vars == <<extract_input, extract_output>>

voice_vars == <<narrator_voice, _character_voices, _available_voices, _next_voice_index,
               voice_last, requested, voiced, voice_given, voice_calls>>

worker_vars == <<workers>>

\* the variables of the components that are pure functions of their input
pure_vars == <<grouper_vars, splitter_vars, numeral_vars>>

vars == <<ai_provider, characters, current_chapter, held, last, resolved, calls,
          parser, parsed_paragraph, parsed_segments,
          grouper_input, grouper_output, splitter_input, splitter_output,
          numeral_input, numeral_output,
          extract_input, extract_output,
          narrator_voice, _character_voices, _available_voices, _next_voice_index,
          voice_last, requested, voiced, voice_given, voice_calls,
          workers>>

-----------------------------------------------------------------------------
(* Python str primitives                                                   *)

Uppers == <<"A","B","C","D","E","F","G","H","I","J","K","L","M",
            "N","O","P","Q","R","S","T","U","V","W","X","Y","Z">>

Lowers == <<"a","b","c","d","e","f","g","h","i","j","k","l","m",
            "n","o","p","q","r","s","t","u","v","w","x","y","z">>

Letters == 1..Len(Uppers)

UpperSet == {Uppers[i] : i \in Letters}

LowerSet == {Lowers[i] : i \in Letters}

\* the lower-case and the upper-case form of each letter
ToLower == [c \in UpperSet |-> Lowers[CHOOSE i \in Letters : Uppers[i] = c]]

ToUpper == [c \in LowerSet |-> Uppers[CHOOSE i \in Letters : Lowers[i] = c]]

IsUpper(c) == c \in UpperSet

IsLower(c) == c \in LowerSet

IsAlpha(c) == IsUpper(c) \/ IsLower(c)

\* str.isspace() of one character (the whitespace the inputs can hold)
IsSpace(c) == c \in {" ", "\n", "\t"}

LowerChar(c) == IF IsUpper(c) THEN ToLower[c] ELSE c

UpperChar(c) == IF IsLower(c) THEN ToUpper[c] ELSE c

\* str.lower()
lower(s) == [i \in 1..Len(s) |-> LowerChar(s[i])]

\* str.capitalize(): first character upper-cased, the rest lower-cased
capitalize(s) == [i \in 1..Len(s) |-> IF i = 1 THEN UpperChar(s[i]) ELSE LowerChar(s[i])]

\* s[a:b] of Python for 0 <= a, with 0-based, end-exclusive offsets
Slice(s, a, b) ==
    LET e == IF b > Len(s) THEN Len(s) ELSE b
    IN  IF a >= e THEN <<>> ELSE SubSeq(s, a + 1, e)

RECURSIVE LStrip(_)
\* str.lstrip()
LStrip(s) == IF s # <<>> /\ IsSpace(Head(s)) THEN LStrip(Tail(s)) ELSE s

RECURSIVE RStrip(_)
\* str.rstrip()
RStrip(s) ==
    IF s # <<>> /\ IsSpace(s[Len(s)]) THEN RStrip(SubSeq(s, 1, Len(s) - 1)) ELSE s

\* str.strip()
strip(s) == RStrip(LStrip(s))

RECURSIVE SplitFrom(_, _, _)
\* the words of s from position i on, cur being the word under construction
SplitFrom(s, i, cur) ==
    IF i > Len(s) THEN (IF cur = <<>> THEN <<>> ELSE <<cur>>)
    ELSE IF IsSpace(s[i])
         THEN (IF cur = <<>> THEN <<>> ELSE <<cur>>) \o SplitFrom(s, i + 1, <<>>)
         ELSE SplitFrom(s, i + 1, Append(cur, s[i]))

\* str.split() with no argument: the maximal runs of non-whitespace
split(s) == SplitFrom(s, 1, <<>>)

RECURSIVE join(_, _)
\* sep.join(words)
join(sep, words) ==
    IF words = <<>> THEN <<>>
    ELSE IF Len(words) = 1 THEN words[1]
    ELSE words[1] \o sep \o join(sep, Tail(words))

\* Optional[...] values
None == [none |-> TRUE]

Some(v) == [none |-> FALSE, v |-> v]

\* Python truth value of an Optional[str]: None and '' are false
Truthy(o) == ~o.none /\ o.v # <<>>

-----------------------------------------------------------------------------
(* CharacterRegistry: data                                                 *)

\* dataclass Character
Character(canonical_name, aliases, context, first_seen_chapter) ==
    [canonical_name |-> canonical_name, aliases |-> aliases,
     context |-> context, first_seen_chapter |-> first_seen_chapter]

\* one item of the characters dict: the key and the Character stored under it
Item(name, character) == [name |-> name, character |-> character]

\* `name in d` for an insertion-ordered dict d
HasKey(d, name) == \E i \in 1..Len(d) : d[i].name = name

KeyIndex(d, name) == CHOOSE i \in 1..Len(d) : d[i].name = name

\* the elements of a list, as a set
Elems(l) == {l[i] : i \in 1..Len(l)}

\* list(a_set): the elements of a set in the iteration order ord, a list
\* without repetition that holds every string the set can hold
ListOfSet(S, ord) == SelectSeq(ord, LAMBDA x : x \in S)

-----------------------------------------------------------------------------
(* CharacterRegistry: operations                                           *)

\* CharacterRegistry.get_canonical_name
RECURSIVE LookupFrom(_, _, _)
LookupFrom(chars, i, descriptor_lower) ==
    IF i > Len(chars) THEN None
    ELSE IF lower(chars[i].name) = descriptor_lower THEN Some(chars[i].name)
    ELSE IF \E k \in 1..Len(chars[i].character.aliases) :
                lower(chars[i].character.aliases[k]) = descriptor_lower
         THEN Some(chars[i].name)
    ELSE LookupFrom(chars, i + 1, descriptor_lower)

\* get_canonical_name without the check of the aliases
get_canonical_name_NamesOnly(chars, descriptor) ==
    IF \E i \in 1..Len(chars) : lower(chars[i].name) = lower(descriptor)
    THEN Some(chars[CHOOSE i \in 1..Len(chars) :
                       /\ lower(chars[i].name) = lower(descriptor)
                       /\ \A j \in 1..(i - 1) : lower(chars[j].name) # lower(descriptor)].name)
    ELSE None

get_canonical_name(chars, descriptor) == LookupFrom(chars, 1, lower(descriptor))

\* a normalization that keeps the last word alone
_normalize_name_LastWord(name) ==
    LET words == split(name)
    IN  IF words = <<>> THEN <<>> ELSE capitalize(words[Len(words)])

\* CharacterRegistry._normalize_name
_normalize_name(name) ==
    LET words == split(name)
    IN  join(<<" ">>, [i \in 1..Len(words) |-> capitalize(words[i])])

\* UpdateEntry merging by list concatenation instead of set union
UpdateEntry_Concat(chars, cur, name, data, ord) ==
    IF HasKey(chars, name)
    THEN [chars EXCEPT ![KeyIndex(chars, name)].character.aliases =
                          @ \o (IF data.has_aliases THEN data.aliases ELSE <<>>)]
    ELSE Append(chars,
                Item(name,
                     Character(name,
                               IF data.has_aliases THEN data.aliases ELSE <<name>>,
                               IF data.has_context THEN data.context ELSE <<>>,
                               IF data.has_chapter THEN data.first_seen_chapter ELSE cur)))

\* UpdateEntry giving every new record the current chapter
UpdateEntry_CurrentChapter(chars, cur, name, data, ord) ==
    IF HasKey(chars, name)
    THEN LET i == KeyIndex(chars, name)
             character == chars[i].character
             new_aliases == Elems(character.aliases)
                              \cup (IF data.has_aliases THEN Elems(data.aliases) ELSE {})
             merged == [character EXCEPT
                          !.aliases = ListOfSet(new_aliases, ord),
                          !.context = IF data.has_context /\ data.context # <<>>
                                      THEN data.context ELSE @]
         IN  [chars EXCEPT ![i].character = merged]
    ELSE Append(chars,
                Item(name,
                     Character(name,
                               IF data.has_aliases THEN data.aliases ELSE <<name>>,
                               IF data.has_context THEN data.context ELSE <<>>,
                               cur)))

\* UpdateEntry taking the returned aliases in place of the stored ones
UpdateEntry_Overwrite(chars, cur, name, data, ord) ==
    IF HasKey(chars, name)
    THEN LET i == KeyIndex(chars, name)
             character == chars[i].character
             merged == [character EXCEPT
                          !.aliases = IF data.has_aliases THEN data.aliases ELSE @,
                          !.context = IF data.has_context /\ data.context # <<>>
                                      THEN data.context ELSE @]
         IN  [chars EXCEPT ![i].character = merged]
    ELSE Append(chars,
                Item(name,
                     Character(name,
                               IF data.has_aliases THEN data.aliases ELSE <<name>>,
                               IF data.has_context THEN data.context ELSE <<>>,
                               IF data.has_chapter THEN data.first_seen_chapter ELSE cur)))

\* One iteration of the loop of _update_from_ai_response over an entry
\* (name, data) of the returned registry whose data is a JSON object.
UpdateEntry(chars, cur, name, data, ord) ==
    IF HasKey(chars, name)
    THEN LET i == KeyIndex(chars, name)
             character == chars[i].character
             new_aliases == Elems(character.aliases)
                              \cup (IF data.has_aliases THEN Elems(data.aliases) ELSE {})
             merged == [character EXCEPT
                          !.aliases = ListOfSet(new_aliases, ord),
                          !.context = IF data.has_context /\ data.context # <<>>
                                      THEN data.context ELSE @]
         IN  [chars EXCEPT ![i].character = merged]
    ELSE Append(chars,
                Item(name,
                     Character(name,
                               IF data.has_aliases THEN data.aliases ELSE <<name>>,
                               IF data.has_context THEN data.context ELSE <<>>,
                               IF data.has_chapter THEN data.first_seen_chapter ELSE cur)))

RECURSIVE UpdateLoop(_, _, _, _, _)
\* The loop of _update_from_ai_response from entry k on: the dict reached and
\* the exception that ended the loop, if one did. data.get on an entry that
\* is no JSON object raises AttributeError after the entries before it were
\* applied.
UpdateLoop(chars, cur, entries, k, ord) ==
    IF k > Len(entries) THEN [chars |-> chars, exc |-> "none"]
    ELSE IF ~entries[k].data.is_object THEN [chars |-> chars, exc |-> "AttributeError"]
    ELSE UpdateLoop(UpdateEntry(chars, cur, entries[k].name, entries[k].data, ord),
                    cur, entries, k + 1, ord)

\* _update_from_ai_response reading result['registry'] instead of
\* result.get('registry', {})
_update_from_ai_response_Subscript(chars, cur, result, ord) ==
    IF ~result.has_registry THEN [chars |-> chars, exc |-> "KeyError"]
    ELSE IF ~result.registry.is_object THEN [chars |-> chars, exc |-> "AttributeError"]
    ELSE UpdateLoop(chars, cur, result.registry.entries, 1, ord)

\* CharacterRegistry._update_from_ai_response(result) for a result that is a
\* JSON object: registry_data = result.get('registry', {}), then the loop.
\* .items() of a registry that is no JSON object raises AttributeError.
_update_from_ai_response(chars, cur, result, ord) ==
    IF ~result.has_registry THEN [chars |-> chars, exc |-> "none"]
    ELSE IF ~result.registry.is_object THEN [chars |-> chars, exc |-> "AttributeError"]
    ELSE UpdateLoop(chars, cur, result.registry.entries, 1, ord)

\* The try block of identify_speaker (lines 109-116) for what generate did:
\* raise, return text that is no JSON, or return the JSON value response.
TryBlock(chars, cur, descriptor, outcome, ord) ==
    IF outcome.kind = "raise"
    THEN [chars |-> chars, exc |-> "Exception", ret |-> <<>>]
    ELSE IF outcome.kind = "text"
    THEN [chars |-> chars, exc |-> "JSONDecodeError", ret |-> <<>>]
    ELSE IF ~outcome.result.is_object
    THEN [chars |-> chars, exc |-> "AttributeError", ret |-> <<>>]
    ELSE LET upd == _update_from_ai_response(chars, cur, outcome.result, ord)
         IN  [chars |-> upd.chars, exc |-> upd.exc,
              ret |-> IF outcome.result.has_speaker THEN outcome.result.speaker
                      ELSE _normalize_name(descriptor)]

\* the subclasses of Exception the model raises
ExceptionClasses == {"JSONDecodeError", "AttributeError", "KeyError", "TypeError", "Exception"}

\* a handler that catches json.JSONDecodeError alone
ExceptClause_JsonOnly(exc) == exc = "JSONDecodeError"

\* except (json.JSONDecodeError, Exception): the exceptions the handler catches
ExceptClause(exc) == exc \in ExceptionClasses

\* identify_speaker returning the descriptor as it is when there is no
\* provider
identify_speaker_AsIs(chars, cur, ai, descriptor, outcome, ord) ==
    LET canonical == get_canonical_name(chars, descriptor)
    IN  IF Truthy(canonical)
        THEN [chars |-> chars, ret |-> canonical.v, ai_called |-> FALSE,
              exc |-> "none", raised |-> FALSE]
        ELSE IF ~ai
        THEN [chars |-> chars, ret |-> descriptor, ai_called |-> FALSE,
              exc |-> "none", raised |-> FALSE]
        ELSE LET t == TryBlock(chars, cur, descriptor, outcome, ord)
             IN  IF t.exc = "none"
                 THEN [chars |-> t.chars, ret |-> t.ret, ai_called |-> TRUE,
                       exc |-> "none", raised |-> FALSE]
                 ELSE IF ExceptClause(t.exc)
                 THEN [chars |-> t.chars, ret |-> _normalize_name(descriptor),
                       ai_called |-> TRUE, exc |-> t.exc, raised |-> FALSE]
                 ELSE [chars |-> t.chars, ret |-> <<>>, ai_called |-> TRUE,
                       exc |-> t.exc, raised |-> TRUE]

\* CharacterRegistry.identify_speaker: the dict it leaves, the name it returns,
\* whether generate was invoked, the exception raised inside the try block
\* and whether an exception reached the caller
identify_speaker(chars, cur, ai, descriptor, outcome, ord) ==
    LET canonical == get_canonical_name(chars, descriptor)
    IN  IF Truthy(canonical)
        THEN [chars |-> chars, ret |-> canonical.v, ai_called |-> FALSE,
              exc |-> "none", raised |-> FALSE]
        ELSE IF ~ai
        THEN [chars |-> chars, ret |-> _normalize_name(descriptor), ai_called |-> FALSE,
              exc |-> "none", raised |-> FALSE]
        ELSE LET t == TryBlock(chars, cur, descriptor, outcome, ord)
             IN  IF t.exc = "none"
                 THEN [chars |-> t.chars, ret |-> t.ret, ai_called |-> TRUE,
                       exc |-> "none", raised |-> FALSE]
                 ELSE IF ExceptClause(t.exc)
                 THEN [chars |-> t.chars, ret |-> _normalize_name(descriptor),
                       ai_called |-> TRUE, exc |-> t.exc, raised |-> FALSE]
                 ELSE [chars |-> t.chars, ret |-> <<>>, ai_called |-> TRUE,
                       exc |-> t.exc, raised |-> TRUE]

\* the fields of the dataclass Character
CharacterFields == {"canonical_name", "aliases", "context", "first_seen_chapter"}

\* a to_dict that writes {aliases, context, first_seen_chapter} only
Character_to_dict_NoName(character) ==
    [aliases |-> character.aliases, context |-> character.context,
     first_seen_chapter |-> character.first_seen_chapter]

\* Character.to_dict: dataclasses.asdict, a new dict of the four fields
Character_to_dict(character) ==
    [canonical_name |-> character.canonical_name, aliases |-> character.aliases,
     context |-> character.context, first_seen_chapter |-> character.first_seen_chapter]

\* CharacterRegistry.to_dict
to_dict(chars) ==
    [i \in 1..Len(chars) |->
        [name |-> chars[i].name, char_data |-> Character_to_dict(chars[i].character)]]

\* CharacterRegistry.from_dict: Character(**char_data) per item raises
\* TypeError unless char_data has exactly the four fields, and then
\* self.characters is not assigned
from_dict(chars, data) ==
    IF \E i \in 1..Len(data) : DOMAIN data[i].char_data # CharacterFields
    THEN [chars |-> chars, exc |-> "TypeError"]
    ELSE [chars |-> [i \in 1..Len(data) |->
                        Item(data[i].name,
                             Character(data[i].char_data.canonical_name,
                                       data[i].char_data.aliases,
                                       data[i].char_data.context,
                                       data[i].char_data.first_seen_chapter))],
          exc |-> "none"]

\* What the mapping an operation returns, or was passed, shares with the
\* registry. get_all_characters is dict.copy(): a new dict of the same
\* Character objects. to_dict builds new dicts and lists. from_dict builds
\* new Character objects around the aliases lists of the mapping passed.
SharesRecord(via) == via = "get_all_characters"

SharesAliases(via) == via \in {"get_all_characters", "from_dict"}

-----------------------------------------------------------------------------
(* Regular expressions, matched as Python's re matches them: by            *)
(* backtracking, alternatives in order, repetitions greedy                 *)

\* the nodes of a pattern
Lit(s) == [t |-> "lit", s |-> s]

\* one character of a class, or of its complement
One(set, neg) == [t |-> "one", set |-> set, neg |-> neg]

\* a greedy repetition, at least min times, of a character class
Cls(set, neg, min) == [t |-> "cls", set |-> set, neg |-> neg, min |-> min]

Cat(parts) == [t |-> "seq", parts |-> parts]

Alt(alts) == [t |-> "alt", alts |-> alts]

\* (?:r)?
Opt(r) == [t |-> "opt", r |-> r]

\* (?:r)*
Star(r) == [t |-> "star", r |-> r]

\* the capturing group match.lastindex names
Cap(r) == [t |-> "cap", r |-> r]

\* a lazy repetition, at least min times, of a character class
LazyCls(set, neg, min) == [t |-> "lazy", set |-> set, neg |-> neg, min |-> min]

\* ^ and $ under re.MULTILINE
Bol == [t |-> "bol"]

Eol == [t |-> "eol"]

\* one way a pattern matches from a position: where the match ends and
\* the span of the capturing group
M(end, cap) == [end |-> end, cap |-> cap]

RECURSIVE Flatten(_)
Flatten(ss) == IF ss = <<>> THEN <<>> ELSE Head(ss) \o Flatten(Tail(ss))

\* two characters are equal, under re.IGNORECASE up to case
SameChar(c, d, ic) == c = d \/ (ic /\ LowerChar(c) = LowerChar(d))

InClass(c, node, ic) ==
    (c \in node.set \/ (ic /\ (LowerChar(c) \in node.set \/ UpperChar(c) \in node.set)))
        # node.neg

RECURSIVE RunEnd(_, _, _, _)
\* the end of the longest run of class characters that starts at pos
RunEnd(node, text, pos, ic) ==
    IF pos < Len(text) /\ InClass(text[pos + 1], node, ic)
    THEN RunEnd(node, text, pos + 1, ic)
    ELSE pos

RECURSIVE Match(_, _, _, _)
RECURSIVE MatchSeq(_, _, _, _, _)
RECURSIVE MatchStar(_, _, _, _)

\* the matches of parts[k..] from pos, in the order backtracking tries them
MatchSeq(parts, k, text, pos, ic) ==
    IF k > Len(parts) THEN <<M(pos, None)>>
    ELSE LET first == Match(parts[k], text, pos, ic)
         IN  Flatten([i \in 1..Len(first) |->
                        LET rest == MatchSeq(parts, k + 1, text, first[i].end, ic)
                        IN  [j \in 1..Len(rest) |->
                                M(rest[j].end,
                                  IF rest[j].cap.none THEN first[i].cap ELSE rest[j].cap)]])

\* the matches of (?:r)* from pos: one more repetition before none
MatchStar(r, text, pos, ic) ==
    LET first == Match(r, text, pos, ic)
    IN  Flatten([i \in 1..Len(first) |->
                    IF first[i].end > pos THEN MatchStar(r, text, first[i].end, ic)
                    ELSE <<>>])
        \o <<M(pos, None)>>

\* the matches of pattern r that start at offset pos of text, in the order
\* backtracking tries them; offsets are Python's, 0-based
Match(r, text, pos, ic) ==
    CASE r.t = "lit" ->
            IF /\ pos + Len(r.s) <= Len(text)
               /\ \A i \in 1..Len(r.s) : SameChar(text[pos + i], r.s[i], ic)
            THEN <<M(pos + Len(r.s), None)>>
            ELSE <<>>
      [] r.t = "one" ->
            IF pos < Len(text) /\ InClass(text[pos + 1], r, ic)
            THEN <<M(pos + 1, None)>>
            ELSE <<>>
      [] r.t = "cls" ->
            LET e == RunEnd(r, text, pos, ic)
            IN  IF e < pos + r.min THEN <<>>
                ELSE [k \in 1..(e - (pos + r.min) + 1) |-> M(e - k + 1, None)]
      [] r.t = "seq" -> MatchSeq(r.parts, 1, text, pos, ic)
      [] r.t = "alt" ->
            Flatten([i \in 1..Len(r.alts) |-> Match(r.alts[i], text, pos, ic)])
      [] r.t = "opt" -> Match(r.r, text, pos, ic) \o <<M(pos, None)>>
      [] r.t = "star" -> MatchStar(r.r, text, pos, ic)
      [] r.t = "cap" ->
            LET inner == Match(r.r, text, pos, ic)
            IN  [i \in 1..Len(inner) |-> M(inner[i].end, Some(<<pos, inner[i].end>>))]
      [] r.t = "lazy" ->
            LET e == RunEnd(r, text, pos, ic)
            IN  IF e < pos + r.min THEN <<>>
                ELSE [k \in 1..(e - (pos + r.min) + 1) |-> M(pos + r.min + k - 1, None)]
      [] r.t = "bol" ->
            IF pos = 0 \/ text[pos] = "\n" THEN <<M(pos, None)>> ELSE <<>>
      [] r.t = "eol" ->
            IF pos = Len(text) \/ text[pos + 1] = "\n" THEN <<M(pos, None)>> ELSE <<>>

\* the value of e, computed once
Only(e) == CHOOSE v \in e : TRUE

RECURSIVE SearchIn(_, _, _, _, _)
\* the match at the least offset in lo..hi at which pattern r matches, None
\* if there is none: the offsets are tried from left to right, by halves
SearchIn(r, text, lo, hi, ic) ==
    IF lo > hi THEN None
    ELSE IF lo = hi
    THEN Only({ IF found # <<>>
                THEN Some([start |-> lo, end |-> found[1].end, cap |-> found[1].cap])
                ELSE None : found \in {Match(r, text, lo, ic)} })
    ELSE Only({ IF left # None THEN left
                ELSE SearchIn(r, text, ((lo + hi) \div 2) + 1, hi, ic)
                    : left \in {SearchIn(r, text, lo, (lo + hi) \div 2, ic)} })

\* regex.search(text) from offset pos on: the leftmost match, None if none
SearchFrom(r, text, pos, ic) == SearchIn(r, text, pos, Len(text), ic)

search(r, text, ic) == SearchFrom(r, text, 0, ic)

\* match.group(n) for the capturing group Cap marks
group(text, m) == Slice(text, m.cap.v[1], m.cap.v[2])

-----------------------------------------------------------------------------
(* TextBookParser                                                          *)

\* \s of the patterns (the whitespace the inputs can hold)
Whitespace == {" ", "\n", "\t"}

\* the quotation marks of dialogue_pattern: ", U+201C and U+201D
OpeningQuotes == {"\"", "u201c"}

ClosingQuotes == {"\"", "u201d"}

QuoteMarks == OpeningQuotes \cup ClosingQuotes

\* ["“]([^"“”]+)["”]
dialogue_pattern ==
    Cat(<<One(OpeningQuotes, FALSE), Cap(Cls(QuoteMarks, TRUE, 1)), One(ClosingQuotes, FALSE)>>)

\* (?:said|replied|cried|asked|exclaimed|whispered|shouted|answered|returned|continued)
Verbs ==
    Alt(<<Lit(<<"s", "a", "i", "d">>),
          Lit(<<"r", "e", "p", "l", "i", "e", "d">>),
          Lit(<<"c", "r", "i", "e", "d">>),
          Lit(<<"a", "s", "k", "e", "d">>),
          Lit(<<"e", "x", "c", "l", "a", "i", "m", "e", "d">>),
          Lit(<<"w", "h", "i", "s", "p", "e", "r", "e", "d">>),
          Lit(<<"s", "h", "o", "u", "t", "e", "d">>),
          Lit(<<"a", "n", "s", "w", "e", "r", "e", "d">>),
          Lit(<<"r", "e", "t", "u", "r", "n", "e", "d">>),
          Lit(<<"c", "o", "n", "t", "i", "n", "u", "e", "d">>)>>)

\* Mr\.|Mrs\.|Miss|Ms\.|Dr\.|Sir|Lady
Titles ==
    Alt(<<Lit(<<"M", "r", ".">>),
          Lit(<<"M", "r", "s", ".">>),
          Lit(<<"M", "i", "s", "s">>),
          Lit(<<"M", "s", ".">>),
          Lit(<<"D", "r", ".">>),
          Lit(<<"S", "i", "r">>),
          Lit(<<"L", "a", "d", "y">>)>>)

\* [A-Z][a-z]+
NameWord == Cat(<<One(UpperSet, FALSE), Cls(LowerSet, FALSE, 1)>>)

\* (?:Mr\.|...|Lady)?\s*[A-Z][a-z]+(?:\s+[A-Z][a-z]+)*
NameGroup ==
    Cat(<<Opt(Titles), Cls(Whitespace, FALSE, 0), NameWord,
          Star(Cat(<<Cls(Whitespace, FALSE, 1), NameWord>>))>>)

\* ATTRIBUTION_PATTERNS, in order: verb name "to"; verb name terminator;
\* name verb; verb his|her noun (whose lastindex is the noun's group)
ATTRIBUTION_PATTERNS ==
    << Cat(<<Verbs, Cls(Whitespace, FALSE, 1), Cap(NameGroup),
             Cat(<<Cls(Whitespace, FALSE, 1), Lit(<<"t", "o">>), One(Whitespace, FALSE)>>)>>),
       Cat(<<Verbs, Cls(Whitespace, FALSE, 1), Cap(NameGroup),
             One({",", ";", "."}, FALSE)>>),
       Cat(<<Cap(NameGroup), Cls(Whitespace, FALSE, 1), Verbs>>),
       Cat(<<Verbs, Cls(Whitespace, FALSE, 1), Alt(<<Lit(<<"h", "i", "s">>), Lit(<<"h", "e", "r">>)>>),
             Cls(Whitespace, FALSE, 1), Cap(Cls(LowerSet, FALSE, 1))>>) >>

\* ^(Mr\.|Mrs\.|Miss|Ms\.|Dr\.|Sir|Lady)\s+
TitlePrefix == Cat(<<Titles, Cls(Whitespace, FALSE, 1)>>)

\* the width of the windows _extract_speaker searches
AttributionWindow == 100

\* dataclass Segment and the values of SegmentType
Segment(text, segment_type, speaker) ==
    [text |-> text, segment_type |-> segment_type, speaker |-> speaker]

NARRATION == "narration"

DIALOGUE == "dialogue"

\* TextBookParser._normalize_speaker_name
_normalize_speaker_name(speaker) ==
    LET prefix == Match(TitlePrefix, speaker, 0, TRUE)
        normalized == strip(IF prefix = <<>> THEN speaker
                            ELSE Slice(speaker, prefix[1].end, Len(speaker)))
        parts == split(normalized)
    IN  IF normalized = <<>> THEN strip(speaker)
        ELSE IF Len(parts) > 1 THEN strip(parts[Len(parts)])
        ELSE normalized

RECURSIVE FirstAttribution(_, _)
\* for regex in self.attribution_regex: match = regex.search(text); the
\* match of the first pattern, from the k-th on, that matches in text
FirstAttribution(text, k) ==
    IF k > Len(ATTRIBUTION_PATTERNS) THEN None
    ELSE LET match == search(ATTRIBUTION_PATTERNS[k], text, TRUE)
         IN  IF ~match.none THEN Some([pattern |-> k, match |-> match.v])
             ELSE FirstAttribution(text, k + 1)

\* an _extract_speaker that searches the window before the dialogue first
_extract_speaker_BeforeFirst(paragraph, dialogue_start, dialogue_end) ==
    LET after_text == Slice(paragraph, dialogue_end, dialogue_end + AttributionWindow)
        after == FirstAttribution(after_text, 1)
        before_start == IF dialogue_start - AttributionWindow > 0
                        THEN dialogue_start - AttributionWindow ELSE 0
        before_text == Slice(paragraph, before_start, dialogue_start)
        before == FirstAttribution(before_text, 1)
    IN  IF ~before.none
        THEN [speaker |-> Some(_normalize_speaker_name(
                                   strip(group(before_text, before.v.match)))),
              attribution_end |-> dialogue_end,
              window |-> "before", pattern |-> before.v.pattern]
        ELSE IF ~after.none
        THEN [speaker |-> Some(_normalize_speaker_name(
                                   strip(group(after_text, after.v.match)))),
              attribution_end |-> dialogue_end + after.v.match.end,
              window |-> "after", pattern |-> after.v.pattern]
        ELSE [speaker |-> None, attribution_end |-> dialogue_end,
              window |-> "none", pattern |-> 0]

\* an _extract_speaker that returns the end of the dialogue for every match
_extract_speaker_DialogueEnd(paragraph, dialogue_start, dialogue_end) ==
    LET after_text == Slice(paragraph, dialogue_end, dialogue_end + AttributionWindow)
        after == FirstAttribution(after_text, 1)
        before_start == IF dialogue_start - AttributionWindow > 0
                        THEN dialogue_start - AttributionWindow ELSE 0
        before_text == Slice(paragraph, before_start, dialogue_start)
        before == FirstAttribution(before_text, 1)
    IN  IF ~after.none
        THEN [speaker |-> Some(_normalize_speaker_name(
                                   strip(group(after_text, after.v.match)))),
              attribution_end |-> dialogue_end,
              window |-> "after", pattern |-> after.v.pattern]
        ELSE IF ~before.none
        THEN [speaker |-> Some(_normalize_speaker_name(
                                   strip(group(before_text, before.v.match)))),
              attribution_end |-> dialogue_end,
              window |-> "before", pattern |-> before.v.pattern]
        ELSE [speaker |-> None, attribution_end |-> dialogue_end,
              window |-> "none", pattern |-> 0]

\* TextBookParser._extract_speaker: (speaker, attribution_end), and the
\* window and pattern the speaker came from
_extract_speaker(paragraph, dialogue_start, dialogue_end) ==
    LET after_text == Slice(paragraph, dialogue_end, dialogue_end + AttributionWindow)
        after == FirstAttribution(after_text, 1)
        before_start == IF dialogue_start - AttributionWindow > 0
                        THEN dialogue_start - AttributionWindow ELSE 0
        before_text == Slice(paragraph, before_start, dialogue_start)
        before == FirstAttribution(before_text, 1)
    IN  IF ~after.none
        THEN [speaker |-> Some(_normalize_speaker_name(
                                   strip(group(after_text, after.v.match)))),
              attribution_end |-> dialogue_end + after.v.match.end,
              window |-> "after", pattern |-> after.v.pattern]
        ELSE IF ~before.none
        THEN [speaker |-> Some(_normalize_speaker_name(
                                   strip(group(before_text, before.v.match)))),
              attribution_end |-> dialogue_end,
              window |-> "before", pattern |-> before.v.pattern]
        ELSE [speaker |-> None, attribution_end |-> dialogue_end,
              window |-> "none", pattern |-> 0]

\* WithNarration without the strip() of the narration
WithNarration_Unstripped(segments, paragraph, a, b) ==
    LET narration == Slice(paragraph, a, b)
    IN  IF a < b /\ strip(narration) # <<>>
        THEN Append(segments, Segment(narration, NARRATION, None))
        ELSE segments

\* segments with the narration paragraph[a:b], stripped, unless it is empty
WithNarration(segments, paragraph, a, b) ==
    LET narration == strip(Slice(paragraph, a, b))
    IN  IF a < b /\ narration # <<>>
        THEN Append(segments, Segment(narration, NARRATION, None))
        ELSE segments

RECURSIVE ParseFrom(_, _, _, _)
\* the loop of _parse_paragraph over dialogue_pattern.finditer(paragraph),
\* the next match sought from scan_pos on, and what follows the loop
ParseFrom(paragraph, scan_pos, current_pos, segments) ==
    LET match == SearchFrom(dialogue_pattern, paragraph, scan_pos, FALSE)
    IN  IF match.none
        THEN LET all == WithNarration(segments, paragraph, current_pos, Len(paragraph))
             IN  IF all = <<>> THEN <<Segment(paragraph, NARRATION, None)>> ELSE all
        ELSE LET m == match.v
                 found == _extract_speaker(paragraph, m.start, m.end)
                 before == WithNarration(segments, paragraph, current_pos, m.start)
             IN  ParseFrom(paragraph, m.end,
                           IF found.attribution_end > m.end THEN found.attribution_end
                           ELSE m.end,
                           Append(before,
                                  Segment(group(paragraph, m), DIALOGUE, found.speaker)))

\* TextBookParser._parse_paragraph
_parse_paragraph(paragraph) == ParseFrom(paragraph, 0, 0, <<>>)

\* the keyword arguments TextBookParser.__init__(self) accepts
InitKeywords == {}

\* TextBookParser(**kwargs): a keyword __init__ does not declare raises
\* TypeError and no parser comes to be
TextBookParser(kwargs) ==
    IF kwargs \subseteq InitKeywords
    THEN [constructed |-> TRUE, exc |-> "none", kwargs |-> kwargs]
    ELSE [constructed |-> FALSE, exc |-> "TypeError", kwargs |-> kwargs]

-----------------------------------------------------------------------------
(* The inputs the model draws from                                         *)

MaxCalls == 2       \* most identify_speaker and from_dict calls in one run

MaxAliases == 3     \* a caller appends to an aliases list shorter than this

MaxChapter == 1     \* set_chapter is called with 1..MaxChapter

AiChapter == MaxChapter + 1   \* a first_seen_chapter only an AI response gives

s_Ab == <<"A", "b">>

s_ab == <<"a", "b">>

s_Cd == <<"C", "d">>

s_x_y == <<"x", " ", "y">>

s_k == <<"k">>

s_m == <<"m">>

\* the canonical names an AI response uses
Names == {s_Ab, s_Cd, <<>>}

\* the descriptors identify_speaker is called with
Descriptors == {s_ab, s_x_y}

\* the iteration orders of a set of strings the model distinguishes
HashOrders == {<<s_ab, s_Ab, s_Cd, <<>>, s_x_y>>, <<s_x_y, <<>>, s_Cd, s_Ab, s_ab>>}

\* a registry entry's data: a JSON value that is no object, or an object
\* with any of aliases, context, first_seen_chapter
NotAnObject == [is_object |-> FALSE]

EntryObject(has_aliases, aliases, has_context, has_chapter) ==
    [is_object |-> TRUE, has_aliases |-> has_aliases, aliases |-> aliases,
     has_context |-> has_context, context |-> s_k,
     has_chapter |-> has_chapter, first_seen_chapter |-> AiChapter]

EntryData ==
    {NotAnObject}
    \cup {EntryObject(FALSE, <<>>, c, f) : c \in BOOLEAN, f \in BOOLEAN}
    \cup {EntryObject(TRUE, a, c, FALSE) : a \in {<<s_ab>>, <<s_Ab>>}, c \in BOOLEAN}

Entries == {[name |-> n, data |-> d] : n \in Names, d \in EntryData}

\* the entry a two-entry registry ends with
LastEntries ==
    {[name |-> s_Cd, data |-> d] :
        d \in {NotAnObject, EntryObject(TRUE, <<s_ab>>, FALSE, FALSE)}}

AiRegistries ==
    {[is_object |-> FALSE]}
    \cup {[is_object |-> TRUE, entries |-> <<>>]}
    \cup {[is_object |-> TRUE, entries |-> <<e>>] : e \in Entries}
    \cup {[is_object |-> TRUE, entries |-> <<e1, e2>>] :
             e1 \in {e \in Entries : e.name # s_Cd}, e2 \in LastEntries}

\* the JSON values generate returns
AiResults ==
    {[is_object |-> FALSE]}
    \cup {[is_object |-> TRUE, has_speaker |-> hs, speaker |-> s_Ab,
           has_registry |-> FALSE] : hs \in BOOLEAN}
    \cup {[is_object |-> TRUE, has_speaker |-> hs, speaker |-> s_Ab,
           has_registry |-> TRUE, registry |-> r] : hs \in BOOLEAN, r \in AiRegistries}

\* what a call of generate does
AiOutcomes ==
    {[kind |-> "raise"], [kind |-> "text"]}
    \cup {[kind |-> "json", result |-> r] : r \in AiResults}

NoOutcome == [kind |-> "not called"]

\* the mappings from_dict is called with; the last lacks canonical_name, as
\* a mapping {aliases, context, first_seen_chapter} does
CharData(canonical_name, aliases) ==
    [canonical_name |-> canonical_name, aliases |-> aliases,
     context |-> s_m, first_seen_chapter |-> MaxChapter]

LoadableMappings ==
    { <<[name |-> s_Ab, char_data |-> CharData(s_Ab, <<s_Ab, s_ab>>)]>>,
      <<[name |-> s_Cd, char_data |-> CharData(s_Cd, <<s_ab>>)],
        [name |-> s_Ab, char_data |-> CharData(s_Ab, <<>>)]>>,
      <<[name |-> s_Cd, char_data |-> CharData(s_Ab, <<s_x_y>>)]>>,
      <<[name |-> s_Ab, char_data |-> [aliases |-> <<s_ab>>, context |-> s_m,
                                       first_seen_chapter |-> MaxChapter]]>> }

\* the pieces the paragraphs are made of
c_narration == <<"H", "e", " ", "i", "n", ".">>

c_space == <<" ">>

c_quote == <<"\"", "H", "i", ",", "\"">>

c_blank_quote == <<"\"", " ", ",", "\"">>

c_said_name == <<" ", "s", "a", "i", "d", " ", "J", "o", ".">>

c_said_to == <<" ", "s", "a", "i", "d", " ", "J", "o", " ", "t", "o", " ", "A", "l", ".">>

c_name_said == <<"J", "o", " ", "s", "a", "i", "d", " ">>

c_said_his == <<" ", "s", "a", "i", "d", " ", "h", "i", "s", " ", "l", "a", "d", "y">>

c_said_title == <<" ", "s", "a", "i", "d", " ", "M", "r", ".", " ", "J", "o", ";">>

c_she == <<" ", "S", "h", "e", ".">>

c_curly_quote == <<"u201c", "H", "i", "u201d">>

c_mark == <<"\"">>

Chunks == {c_narration, c_space, c_quote, c_blank_quote, c_said_name, c_said_to, c_name_said, c_said_his, c_said_title, c_she, c_curly_quote, c_mark}

MaxChunks == 3      \* a paragraph is made of at most this many pieces

RECURSIVE Concat(_)
Concat(pieces) == IF pieces = <<>> THEN <<>> ELSE Head(pieces) \o Concat(Tail(pieces))

\* the paragraphs: not blank, as _parse_chapter_content passes them, and
\* also with whitespace around them, as a direct caller may pass them
Paragraphs ==
    {p \in UNION {{Concat(pieces) : pieces \in [1..n -> Chunks]} : n \in 1..MaxChunks} :
        strip(p) # <<>>}

-----------------------------------------------------------------------------
(* The registry as a state machine                                         *)

NoCall == [op |-> "init", descriptor |-> <<>>, ai_called |-> FALSE, ret |-> <<>>,
           exc |-> "none", raised |-> FALSE, outcome |-> NoOutcome]

\* CharacterRegistry.__init__
InitRegistry ==
    /\ ai_provider \in BOOLEAN
    /\ characters = <<>>
    /\ current_chapter = 0
    /\ held = None
    /\ last = NoCall
    /\ resolved = [d \in Descriptors |-> None]
    /\ calls = 0
    /\ parser = None
    /\ parsed_paragraph = <<>>
    /\ parsed_segments = None
    /\ grouper_input = <<>>
    /\ grouper_output = None
    /\ splitter_input = <<>>
    /\ splitter_output = None
    /\ numeral_input = <<>>
    /\ numeral_output = None
    /\ extract_input = None
    /\ extract_output = None
    /\ narrator_voice = <<>>
    /\ _character_voices = <<>>
    /\ _available_voices = <<>>
    /\ _next_voice_index = 0
    /\ voice_last = None
    /\ requested = <<>>
    /\ voiced = {}
    /\ voice_given = <<>>
    /\ voice_calls = 0
    /\ workers = <<>>

\* CharacterRegistry.set_chapter
SetChapter(chapter_num) ==
    /\ current_chapter' = chapter_num
    /\ last' = [NoCall EXCEPT !.op = "set_chapter"]
    /\ UNCHANGED <<ai_provider, characters, held, resolved, calls, parser_vars, pure_vars, extract_vars, voice_vars, worker_vars>>

\* whether identify_speaker reaches the call of generate
ReachesGenerate(descriptor) ==
    ai_provider /\ ~Truthy(get_canonical_name(characters, descriptor))

\* the entries of a returned registry the update loop gets to apply
RECURSIVE Applied(_)
Applied(entries) ==
    IF entries = <<>> \/ ~Head(entries).data.is_object THEN <<>>
    ELSE <<Head(entries)>> \o Applied(Tail(entries))

AppliedEntries(outcome) ==
    IF outcome.kind = "json" /\ outcome.result.is_object /\ outcome.result.has_registry
       /\ outcome.result.registry.is_object
    THEN Applied(outcome.result.registry.entries)
    ELSE <<>>

\* the existing characters whose aliases attribute the update loop rebinds
Rebound(chars, outcome) ==
    {e.name : e \in {x \in Elems(AppliedEntries(outcome)) : HasKey(chars, x.name)}}

\* CharacterRegistry.identify_speaker
IdentifySpeaker(descriptor, outcome, ord) ==
    LET r == identify_speaker(characters, current_chapter, ai_provider,
                              descriptor, outcome, ord)
    IN  /\ calls < MaxCalls
        /\ calls' = calls + 1
        /\ characters' = r.chars
        /\ last' = [op |-> "identify_speaker", descriptor |-> descriptor,
                    ai_called |-> r.ai_called, ret |-> r.ret, exc |-> r.exc,
                    raised |-> r.raised,
                    outcome |-> IF r.ai_called THEN outcome ELSE NoOutcome]
        /\ resolved' = IF r.ai_called /\ r.exc = "none"
                       THEN [resolved EXCEPT ![descriptor] = Some(r.ret)]
                       ELSE resolved
        /\ held' = IF ~held.none /\ r.ai_called /\ ~SharesRecord(held.v.via)
                      /\ held.v.name \in Rebound(characters, outcome)
                   THEN Some([held.v EXCEPT !.live = FALSE])
                   ELSE held
        /\ UNCHANGED <<ai_provider, current_chapter, parser_vars, pure_vars, extract_vars, voice_vars, worker_vars>>

\* identify_speaker with every descriptor, and with every outcome of generate
\* when the call reaches it
IdentifyWith(outcomes) ==
    \E descriptor \in Descriptors :
        IF ReachesGenerate(descriptor)
        THEN \E outcome \in outcomes :
                IF Rebound(characters, outcome) # {}
                THEN \E ord \in HashOrders : IdentifySpeaker(descriptor, outcome, ord)
                ELSE IdentifySpeaker(descriptor, outcome, CHOOSE ord \in HashOrders : TRUE)
        ELSE IdentifySpeaker(descriptor, NoOutcome, CHOOSE ord \in HashOrders : TRUE)

Identify == IdentifyWith(AiOutcomes)

SetChapterAny == \E chapter_num \in 1..MaxChapter : SetChapter(chapter_num)

\* CharacterRegistry.from_dict(data); with keep, the caller goes on holding
\* the mapping it passed, and in it the char_data stored under name
FromDict(data, keep, name) ==
    LET r == from_dict(characters, data)
    IN  /\ calls < MaxCalls
        /\ calls' = calls + 1
        /\ characters' = r.chars
        /\ last' = [NoCall EXCEPT !.op = "from_dict", !.exc = r.exc,
                                  !.raised = (r.exc # "none")]
        /\ held' = IF keep /\ r.exc = "none"
                   THEN Some([via |-> "from_dict", name |-> name, live |-> TRUE])
                   ELSE None
        /\ UNCHANGED <<ai_provider, current_chapter, resolved, parser_vars, pure_vars, extract_vars, voice_vars, worker_vars>>

Load == \E data \in LoadableMappings : FromDict(data, FALSE, data[1].name)

NextRegistry == Identify \/ SetChapterAny \/ Load

SpecRegistry == InitRegistry /\ [][NextRegistry]_vars


-----------------------------------------------------------------------------
(* A caller that keeps what the registry handed out, or was handed          *)

\* CharacterRegistry.get_all_characters(); the caller keeps the mapping
\* returned, and in it the entry under name
GetAllCharacters(name) ==
    /\ HasKey(characters, name)
    /\ held' = Some([via |-> "get_all_characters", name |-> name, live |-> TRUE])
    /\ last' = [NoCall EXCEPT !.op = "get_all_characters"]
    /\ UNCHANGED <<ai_provider, characters, current_chapter, resolved, calls, parser_vars, pure_vars, extract_vars, voice_vars, worker_vars>>

\* CharacterRegistry.to_dict(); the caller keeps the mapping returned
ToDict(name) ==
    /\ HasKey(characters, name)
    /\ held' = Some([via |-> "to_dict", name |-> name, live |-> TRUE])
    /\ last' = [NoCall EXCEPT !.op = "to_dict"]
    /\ UNCHANGED <<ai_provider, characters, current_chapter, resolved, calls, parser_vars, pure_vars, extract_vars, voice_vars, worker_vars>>

\* whether the aliases list the caller reaches through its mapping is the
\* list of the registry's record
AliasesShared ==
    /\ ~held.none /\ HasKey(characters, held.v.name)
    /\ SharesAliases(held.v.via)
    /\ (held.v.live \/ SharesRecord(held.v.via))

\* whether the entry of the caller's mapping is the registry's Character
RecordShared ==
    ~held.none /\ HasKey(characters, held.v.name) /\ SharesRecord(held.v.via)

\* the caller appends to the aliases list of the entry it holds
CallerAppendsAlias(alias) ==
    /\ ~held.none
    /\ characters' =
          IF AliasesShared
          THEN [characters EXCEPT ![KeyIndex(characters, held.v.name)].character.aliases =
                                     Append(@, alias)]
          ELSE characters
    /\ AliasesShared
          => Len(characters[KeyIndex(characters, held.v.name)].character.aliases) < MaxAliases
    /\ last' = [NoCall EXCEPT !.op = "caller appends alias"]
    /\ UNCHANGED <<ai_provider, current_chapter, held, resolved, calls, parser_vars, pure_vars, extract_vars, voice_vars, worker_vars>>

\* the caller assigns the context of the entry it holds
CallerSetsContext(context) ==
    /\ ~held.none
    /\ characters' =
          IF RecordShared
          THEN [characters EXCEPT ![KeyIndex(characters, held.v.name)].character.context =
                                     context]
          ELSE characters
    /\ last' = [NoCall EXCEPT !.op = "caller sets context"]
    /\ UNCHANGED <<ai_provider, current_chapter, held, resolved, calls, parser_vars, pure_vars, extract_vars, voice_vars, worker_vars>>

\* the caller deletes the entry from the mapping it holds: the mapping is
\* in no case the registry's own dict
CallerDeletesKey ==
    /\ ~held.none
    /\ held' = None
    /\ last' = [NoCall EXCEPT !.op = "caller deletes key"]
    /\ UNCHANGED <<ai_provider, characters, current_chapter, resolved, calls, parser_vars, pure_vars, extract_vars, voice_vars, worker_vars>>

CallerOps == {"caller appends alias", "caller sets context", "caller deletes key"}

\* the AI responses that merge aliases into one character
MergingOutcomes ==
    {o \in AiOutcomes :
        /\ o.kind = "json" /\ o.result.is_object /\ o.result.has_speaker
        /\ o.result.has_registry /\ o.result.registry.is_object
        /\ Len(o.result.registry.entries) = 1
        /\ o.result.registry.entries[1].name = s_Ab
        /\ o.result.registry.entries[1].data.is_object
        /\ o.result.registry.entries[1].data.has_aliases
        /\ ~o.result.registry.entries[1].data.has_context}

IdentifyMerging == IdentifyWith(MergingOutcomes)

GetAll == \E name \in Names : GetAllCharacters(name)

Dump == \E name \in Names : ToDict(name)

LoadAndKeep == \E data \in LoadableMappings : FromDict(data, TRUE, data[1].name)

CallerAppends == CallerAppendsAlias(s_x_y)

CallerSets == CallerSetsContext(s_k)

NextCopies ==
    \/ IdentifyMerging
    \/ SetChapterAny
    \/ GetAll
    \/ Dump
    \/ LoadAndKeep
    \/ CallerAppends
    \/ CallerSets
    \/ CallerDeletesKey

SpecCopies == InitRegistry /\ [][NextCopies]_vars

-----------------------------------------------------------------------------
(* Properties of CharacterRegistry                                         *)

\* the step is a call of identify_speaker; last' describes it
IdentifyStep == last'.op = "identify_speaker" /\ calls' = calls + 1

\* the record matches the descriptor ignoring case, by its key or an alias
Matches(item, descriptor) ==
    \/ lower(item.name) = lower(descriptor)
    \/ \E a \in Elems(item.character.aliases) : lower(a) = lower(descriptor)

Known(chars, descriptor) == \E i \in 1..Len(chars) : Matches(chars[i], descriptor)

\* the first record, in insertion order, that matches the descriptor
FirstMatch(chars, descriptor) ==
    chars[CHOOSE i \in 1..Len(chars) :
             /\ Matches(chars[i], descriptor)
             /\ \A j \in 1..(i - 1) : ~Matches(chars[j], descriptor)]

\* C3: identify_speaker never invokes generate when the descriptor equals,
\* ignoring case, a stored canonical name or alias, and returns the
\* canonical name of a matching record.
C3_FastPathNeverCallsAi ==
    [][ (IdentifyStep /\ Known(characters, last'.descriptor))
        => /\ ~last'.ai_called
           /\ \E i \in 1..Len(characters) :
                 Matches(characters[i], last'.descriptor) /\ last'.ret = characters[i].name
      ]_vars

\* C4: when generate raises or returns text that is no JSON, identify_speaker
\* raises nothing, returns the normalized descriptor and leaves the character
\* map and the current chapter as they were.
C4_AiFailureLeavesRegistry ==
    [][ (IdentifyStep /\ last'.ai_called /\ last'.outcome.kind \in {"raise", "text"})
        => /\ ~last'.raised
           /\ last'.ret = _normalize_name(last'.descriptor)
           /\ characters' = characters
           /\ current_chapter' = current_chapter
      ]_vars

C4_Witness ==
    /\ last.op = "identify_speaker" /\ last.ai_called
    /\ last.outcome.kind = "raise"
    /\ characters # <<>>
    /\ last.ret = <<"X", " ", "Y">>

\* the AI returned a JSON object
ReturnedObject(l) == l.ai_called /\ l.outcome.kind = "json" /\ l.outcome.result.is_object

\* a returned registry holds an entry that is no JSON object
HasMalformedEntry(result) ==
    /\ result.has_registry /\ result.registry.is_object
    /\ \E e \in Elems(result.registry.entries) : ~e.data.is_object

C6_Memoized ==
    [][ (IdentifyStep /\ ~resolved[last'.descriptor].none)
        => /\ ~last'.ai_called
           /\ last'.ret = resolved[last'.descriptor].v
      ]_vars

\* C6 as amended: after such a call, a later call with the same descriptor
\* skips generate exactly when the first record that matches the descriptor
\* ignoring case (by canonical name or alias) has a non-empty canonical name,
\* and then returns that canonical name; otherwise generate is invoked again.
C6_MemoizedThroughRegistry ==
    [][ (IdentifyStep /\ ~resolved[last'.descriptor].none)
        => LET d == last'.descriptor
               hit == Known(characters, d) /\ FirstMatch(characters, d).name # <<>>
           IN  /\ last'.ai_called <=> (ai_provider /\ ~hit)
               /\ hit => last'.ret = FirstMatch(characters, d).name
      ]_vars

\* a second call for a descriptor the AI resolved, answered by an alias
C6_Witness ==
    /\ last.op = "identify_speaker" /\ ~last.ai_called
    /\ ~resolved[last.descriptor].none
    /\ \E i \in 1..Len(characters) :
          /\ lower(characters[i].name) # lower(last.descriptor)
          /\ Matches(characters[i], last.descriptor)
          /\ last.ret = characters[i].name

\* no two aliases in the list are equal ignoring case
NoCaseDuplicates(aliases) ==
    \A i, j \in 1..Len(aliases) : i # j => lower(aliases[i]) # lower(aliases[j])

\* no string is in the list twice
NoDuplicates(aliases) == \A i, j \in 1..Len(aliases) : i # j => aliases[i] # aliases[j]

\* the applied entries of the response that name a character of chars
MergedEntries(chars, l) == {e \in Elems(AppliedEntries(l.outcome)) : HasKey(chars, e.name)}

ReturnedAliases(e) == IF e.data.has_aliases THEN Elems(e.data.aliases) ELSE {}

C10_RoundTrip ==
    LET data == to_dict(characters)
        loaded == from_dict(<<>>, data)
    IN  /\ loaded.exc = "none"
        /\ loaded.chars = characters
        /\ to_dict(loaded.chars) = data

\* a registry of two records with aliases, one stored under a key that is
\* not its canonical_name
C10_Witness ==
    /\ Len(characters) >= 2
    /\ \E i \in 1..Len(characters) :
          /\ characters[i].name # characters[i].character.canonical_name
          /\ characters[i].character.aliases # <<>>


\* C9: no change a caller makes to the mapping get_all_characters or
\* to_dict returned, or to the mapping it passed to from_dict, alters the
\* characters the registry stores.
C9_DefensiveCopies ==
    [][ last'.op \in CallerOps => characters' = characters ]_vars

-----------------------------------------------------------------------------
(* The parser as a state machine                                           *)

InitParser ==
    /\ ai_provider = FALSE
    /\ characters = <<>>
    /\ current_chapter = 0
    /\ held = None
    /\ last = NoCall
    /\ resolved = [d \in Descriptors |-> None]
    /\ calls = 0
    /\ parser = None
    /\ parsed_paragraph \in Paragraphs
    /\ parsed_segments = None
    /\ grouper_input = <<>>
    /\ grouper_output = None
    /\ splitter_input = <<>>
    /\ splitter_output = None
    /\ numeral_input = <<>>
    /\ numeral_output = None
    /\ extract_input = None
    /\ extract_output = None
    /\ narrator_voice = <<>>
    /\ _character_voices = <<>>
    /\ _available_voices = <<>>
    /\ _next_voice_index = 0
    /\ voice_last = None
    /\ requested = <<>>
    /\ voiced = {}
    /\ voice_given = <<>>
    /\ voice_calls = 0
    /\ workers = <<>>

\* parser = TextBookParser(**kwargs)
Construct(kwargs) ==
    /\ parser = None
    /\ parser' = Some(TextBookParser(kwargs))
    /\ UNCHANGED <<registry_vars, pure_vars, parsed_paragraph, parsed_segments, extract_vars, voice_vars, worker_vars>>

\* parser._parse_paragraph(paragraph)
ParseParagraph ==
    /\ ~parser.none /\ parser.v.constructed
    /\ parsed_segments = None
    /\ parsed_segments' = Some(_parse_paragraph(parsed_paragraph))
    /\ UNCHANGED <<registry_vars, pure_vars, parser, parsed_paragraph, extract_vars, voice_vars, worker_vars>>

ConstructPlain == Construct({})

ConstructWithRegistry == Construct({"character_registry"})

NextParser == ConstructPlain \/ ConstructWithRegistry \/ ParseParagraph

SpecParser == InitParser /\ [][NextParser]_vars

-----------------------------------------------------------------------------
(* Properties of TextBookParser                                            *)

RECURSIVE Texts(_)
\* the texts of the segments, one after the other
Texts(segs) == IF segs = <<>> THEN <<>> ELSE Head(segs).text \o Texts(Tail(segs))

\* s without its quotation marks and its whitespace
Content(s) == SelectSeq(s, LAMBDA c : c \notin QuoteMarks /\ ~IsSpace(c))

\* C1: the characters of the paragraph other than quotation marks and
\* trimmed whitespace are, in source order, the characters of the emitted
\* segments: none dropped, none twice; an attribution clause after a quote
\* is kept as Narration.
C1_NoTextLoss ==
    ~parsed_segments.none => Content(Texts(parsed_segments.v)) = Content(parsed_paragraph)

\* whitespace and the punctuation .,;:!?"'-
Punctuation == {".", ",", ";", ":", "!", "?", "\"", "'", "-"}

\* C2: no Dialogue segment has a text that is empty once whitespace and
\* the punctuation .,;:!?"'- are stripped from it.
C2_NoEmptyDialogue ==
    ~parsed_segments.none =>
        \A i \in 1..Len(parsed_segments.v) :
            parsed_segments.v[i].segment_type = DIALOGUE
                => \E c \in Elems(parsed_segments.v[i].text) : c \notin Punctuation /\ ~IsSpace(c)

\* C7: a parser asked for with a CharacterRegistry is constructed with it,
\* and the speaker of each Dialogue segment with an attribution is the name
\* the registry gives (a known name or alias by the fast path).
C7_ParserUsesRegistry ==
    (~parser.none /\ "character_registry" \in parser.v.kwargs)
        => /\ parser.v.constructed
           /\ ~parsed_segments.none =>
                 \A i \in 1..Len(parsed_segments.v) :
                    (parsed_segments.v[i].segment_type = DIALOGUE /\ ~parsed_segments.v[i].speaker.none)
                        => \E j \in 1..Len(characters) :
                              characters[j].name = parsed_segments.v[i].speaker.v

-----------------------------------------------------------------------------
(* SegmentGrouper                                                          *)

\* len(seg1.text.strip()) < 50
ShortNarration == 50

\* len(text) > 30
SubstantialNarration == 30

\* len(text) > 15
LongAttribution == 15

attribution_words ==
    {<<"s", "a", "i", "d">>,
     <<"r", "e", "p", "l", "i", "e", "d">>,
     <<"a", "s", "k", "e", "d">>,
     <<"c", "r", "i", "e", "d">>,
     <<"e", "x", "c", "l", "a", "i", "m", "e", "d">>,
     <<"w", "h", "i", "s", "p", "e", "r", "e", "d">>,
     <<"s", "h", "o", "u", "t", "e", "d">>,
     <<"a", "n", "s", "w", "e", "r", "e", "d">>,
     <<"r", "e", "t", "u", "r", "n", "e", "d">>,
     <<"c", "o", "n", "t", "i", "n", "u", "e", "d">>,
     <<"i", "m", "p", "a", "t", "i", "e", "n", "t", "l", "y">>,
     <<"c", "o", "l", "d", "l", "y">>,
     <<"w", "a", "r", "m", "l", "y">>,
     <<"s", "o", "f", "t", "l", "y">>,
     <<"l", "o", "u", "d", "l", "y">>}

\* _should_merge comparing the speakers as they are spelled
_should_merge_Exact(seg1, seg2) ==
    /\ seg1.segment_type = seg2.segment_type
    /\ IF seg1.segment_type = DIALOGUE
       THEN Truthy(seg1.speaker) /\ seg1.speaker = seg2.speaker
       ELSE \/ Len(strip(seg1.text)) < ShortNarration
            \/ LET seg2_text == strip(seg2.text)
               IN  seg2_text # <<>> /\ ~IsUpper(seg2_text[1])

\* a _should_merge that takes a lower-case start alone for a continuation
_should_merge_Lowercase(seg1, seg2) ==
    IF seg1.segment_type # seg2.segment_type THEN FALSE
    ELSE IF seg1.segment_type = DIALOGUE
    THEN /\ Truthy(seg1.speaker)
         /\ Truthy(seg2.speaker)
         /\ lower(seg1.speaker.v) = lower(seg2.speaker.v)
    ELSE \/ Len(strip(seg1.text)) < ShortNarration
         \/ LET seg2_text == strip(seg2.text)
            IN  seg2_text # <<>> /\ IsLower(seg2_text[1])

\* SegmentGrouper._should_merge, as the truth value group_segments tests
_should_merge(seg1, seg2) ==
    IF seg1.segment_type # seg2.segment_type THEN FALSE
    ELSE IF seg1.segment_type = DIALOGUE
    THEN /\ Truthy(seg1.speaker)
         /\ Truthy(seg2.speaker)
         /\ lower(seg1.speaker.v) = lower(seg2.speaker.v)
    ELSE \/ Len(strip(seg1.text)) < ShortNarration
         \/ LET seg2_text == strip(seg2.text)
            IN  seg2_text # <<>> /\ ~IsUpper(seg2_text[1])

\* SegmentGrouper._merge_text
_merge_text(text1, text2) ==
    LET t1 == strip(text1)
        t2 == strip(text2)
    IN  IF t1 # <<>> /\ t2 # <<>>
        THEN IF \/ t1[Len(t1)] \in {",", "-"}
                \/ (IsLower(t2[1]) /\ t1[Len(t1)] \notin {".", "!", "?"})
             THEN t1 \o <<" ">> \o t2
             ELSE t1 \o <<" ">> \o t2
        ELSE IF t1 # <<>> THEN t1 ELSE t2

RECURSIVE GroupLoop(_, _, _, _)
\* the loop of group_segments from the i-th segment on, and the append of
\* the last group after it
GroupLoop(segments, i, grouped, current_group) ==
    IF i > Len(segments)
    THEN IF current_group.none THEN grouped ELSE Append(grouped, current_group.v)
    ELSE IF ~current_group.none /\ _should_merge(current_group.v, segments[i])
    THEN GroupLoop(segments, i + 1, grouped,
                   Some([current_group.v EXCEPT
                            !.text = _merge_text(@, segments[i].text)]))
    ELSE GroupLoop(segments, i + 1,
                   IF current_group.none THEN grouped
                   ELSE Append(grouped, current_group.v),
                   Some(Segment(segments[i].text, segments[i].segment_type,
                                segments[i].speaker)))

\* a filter that keeps the substantial segments only
KeepFragment_Substantial(segment) == Len(strip(segment.text)) > SubstantialNarration

\* a filter that drops a fragment made of attribution words alone
KeepFragment_Solely(segment) ==
    LET text == strip(segment.text)
        words == split(lower(text))
    IN  \/ segment.segment_type = DIALOGUE
        \/ Len(text) > SubstantialNarration
        \/ ~(\A k \in 1..Len(words) : words[k] \in attribution_words)
        \/ Len(text) > LongAttribution

\* whether _filter_short_fragments keeps the segment
KeepFragment(segment) ==
    LET text == strip(segment.text)
        words == split(lower(text))
    IN  \/ segment.segment_type = DIALOGUE
        \/ Len(text) > SubstantialNarration
        \/ ~(\E k \in 1..Len(words) : words[k] \in attribution_words)
        \/ Len(text) > LongAttribution

\* SegmentGrouper._filter_short_fragments
_filter_short_fragments(segments) == SelectSeq(segments, KeepFragment)

\* SegmentGrouper.group_segments
group_segments(segments) ==
    IF segments = <<>> THEN <<>>
    ELSE _filter_short_fragments(GroupLoop(segments, 1, <<>>, None))

\* the segments the lists are made of
s_Jo == <<"J", "o">>

s_jo == <<"j", "o">>

s_Al == <<"A", "l">>

g_hi_Jo == Segment(<<"H", "i", ",">>, DIALOGUE, Some(s_Jo))

g_yo_jo == Segment(<<" ", "y", "o">>, DIALOGUE, Some(s_jo))

g_ok_Al == Segment(<<"o", "k", ".">>, DIALOGUE, Some(s_Al))

g_hi_unknown == Segment(<<"H", "i", ",">>, DIALOGUE, None)

g_blank_Jo == Segment(<<" ">>, DIALOGUE, Some(s_Jo))

g_said == Segment(<<"s", "a", "i", "d", " ", "J", "o">>, NARRATION, None)

g_he == Segment(<<"H", "e", " ", "i", "n", ".">>, NARRATION, None)

g_and == Segment(<<"a", "n", "d", " ", "s", "o">>, NARRATION, None)

g_said_long == Segment(<<"s", "a", "i", "d", " ", "J", "o", " ", "i", "m", "p", "a", "t", "i", "e", "n", "t", "l", "y">>, NARRATION, None)

g_night ==
    Segment(<<"I", "t", " ", "w", "a", "s", " ", "a", " ", "d", "a", "r", "k", " ", "a", "n",
             "d", " ", "s", "t", "o", "r", "m", "y", " ", "n", "i", "g", "h", "t", " ", "a",
             "n", "d", " ", "t", "h", "e", " ", "r", "a", "i", "n", " ", "f", "e", "l", "l",
             " ", "o", "n", ".">>,
            NARRATION, None)

g_two == Segment(<<"2", " ", "m", "e", "n", ".">>, NARRATION, None)

GroupableSegments ==
    {g_hi_Jo, g_yo_jo, g_ok_Al, g_hi_unknown, g_blank_Jo,
     g_said, g_he, g_and, g_said_long, g_night, g_two}

MaxSegments == 3    \* group_segments is given at most this many segments

SegmentLists == UNION {[1..n -> GroupableSegments] : n \in 0..MaxSegments}

-----------------------------------------------------------------------------
(* The grouper as a state machine                                          *)

InitGrouper ==
    /\ ai_provider = FALSE
    /\ characters = <<>>
    /\ current_chapter = 0
    /\ held = None
    /\ last = NoCall
    /\ resolved = [d \in Descriptors |-> None]
    /\ calls = 0
    /\ parser = None
    /\ parsed_paragraph = <<>>
    /\ parsed_segments = None
    /\ grouper_input \in SegmentLists
    /\ grouper_output = None
    /\ splitter_input = <<>>
    /\ splitter_output = None
    /\ numeral_input = <<>>
    /\ numeral_output = None
    /\ extract_input = None
    /\ extract_output = None
    /\ narrator_voice = <<>>
    /\ _character_voices = <<>>
    /\ _available_voices = <<>>
    /\ _next_voice_index = 0
    /\ voice_last = None
    /\ requested = <<>>
    /\ voiced = {}
    /\ voice_given = <<>>
    /\ voice_calls = 0
    /\ workers = <<>>

\* grouped = SegmentGrouper().group_segments(segments)
GroupSegments ==
    /\ grouper_output = None
    /\ grouper_output' = Some(group_segments(grouper_input))
    /\ UNCHANGED <<registry_vars, parser_vars, grouper_input, splitter_vars, numeral_vars, extract_vars, voice_vars, worker_vars>>

NextGrouper == GroupSegments

SpecGrouper == InitGrouper /\ [][NextGrouper]_vars

-----------------------------------------------------------------------------
(* Properties of SegmentGrouper                                            *)

IsDialogue(segment) == segment.segment_type = DIALOGUE

Dialogues(segments) == SelectSeq(segments, IsDialogue)

\* two Dialogue segments whose speakers are both known and equal ignoring case
SameSpeaker(a, b) ==
    /\ IsDialogue(a) /\ IsDialogue(b)
    /\ ~a.speaker.none /\ ~b.speaker.none
    /\ lower(a.speaker.v) = lower(b.speaker.v)

\* the i-th segment is a Dialogue that does not continue the one before it
StartsRun(segments, i) ==
    IsDialogue(segments[i]) /\ (i = 1 \/ ~SameSpeaker(segments[i - 1], segments[i]))

\* where the run of same-speaker Dialogue segments that starts at i ends
EndOfRun(segments, i) ==
    CHOOSE j \in i..Len(segments) :
        /\ \A k \in (i + 1)..j : SameSpeaker(segments[k - 1], segments[k])
        /\ j = Len(segments) \/ ~SameSpeaker(segments[j], segments[j + 1])

\* the trimmed texts of segments i..j that are not empty, joined with
\* single spaces
JoinTrimmed(segments, i, j) ==
    join(<<" ">>,
         SelectSeq([k \in 1..(j - i + 1) |-> strip(segments[i + k - 1].text)],
                   LAMBDA t : t # <<>>))

\* one Dialogue per run of adjacent same-speaker Dialogue segments: the
\* speaker of the first, the text as it is for a run of one segment
MergedRuns(segments) ==
    LET starts == SelectSeq([i \in 1..Len(segments) |-> i],
                            LAMBDA i : StartsRun(segments, i))
    IN  [k \in 1..Len(starts) |->
            LET i == starts[k]
                j == EndOfRun(segments, i)
            IN  Segment(IF j = i THEN segments[i].text ELSE JoinTrimmed(segments, i, j),
                        DIALOGUE, segments[i].speaker)]

\* C11: adjacent Dialogue segments end in one output segment, their trimmed
\* texts joined with single spaces under the first one's speaker, exactly
\* when both speakers are known and equal ignoring case; Dialogue segments
\* with different speakers or an unknown speaker stay apart.
C11_MergeSameSpeaker ==
    ~grouper_output.none => Dialogues(grouper_output.v) = MergedRuns(grouper_input)

\* a list where speakers that differ in case only were merged next to a
\* Dialogue of unknown speaker that was not
C11_Witness ==
    /\ ~grouper_output.none
    /\ Len(grouper_input) = 3
    /\ SameSpeaker(grouper_input[1], grouper_input[2])
    /\ grouper_input[1].speaker # grouper_input[2].speaker
    /\ IsDialogue(grouper_input[3]) /\ grouper_input[3].speaker.none
    /\ Len(grouper_output.v) = 2

\* a is a contiguous part of b
IsPartOf(a, b) ==
    \E k \in 0..(Len(b) - Len(a)) : \A n \in 1..Len(a) : b[k + n] = a[n]

\* the positions of the Dialogue segments
DialoguePositions(segments) == {i \in 1..Len(segments) : IsDialogue(segments[i])}

\* the maps from the Dialogue segments of the input to those of the output
\* that keep their order
OrderedMaps ==
    {f \in [DialoguePositions(grouper_input) -> DialoguePositions(grouper_output.v)] :
        \A i, j \in DOMAIN f : i < j => f[i] <= f[j]}

HoldsExactly(given, kept) ==
    kept.speaker = given.speaker /\ IsPartOf(given.text, kept.text)

HoldsTrimmed(given, kept) ==
    /\ given.speaker.none <=> kept.speaker.none
    /\ ~given.speaker.none => lower(kept.speaker.v) = lower(given.speaker.v)
    /\ IsPartOf(strip(given.text), kept.text)

\* C12 as stated: the text of every input Dialogue is, in the original
\* order, within an output Dialogue that has the same speaker.
C12_DialogueKept ==
    ~grouper_output.none =>
        \E f \in OrderedMaps :
            \A i \in DOMAIN f : HoldsExactly(grouper_input[i], grouper_output.v[f[i]])

\* C12 as amended: the trimmed text of every input Dialogue is, in the
\* original order, within an output Dialogue whose speaker is the same up to
\* letter case (unknown for unknown); there are as many output Dialogue
\* segments as runs of input Dialogue segments, so the filter drops none.
C12_DialogueKeptTrimmed ==
    ~grouper_output.none =>
        /\ \E f \in OrderedMaps :
              \A i \in DOMAIN f : HoldsTrimmed(grouper_input[i], grouper_output.v[f[i]])
        /\ Len(Dialogues(grouper_output.v))
              = Cardinality({i \in 1..Len(grouper_input) : StartsRun(grouper_input, i)})

\* a Dialogue merged under another spelling of its speaker, after a short
\* attribution fragment that the filter removed
C12_Witness ==
    /\ ~grouper_output.none
    /\ Len(grouper_input) = 3
    /\ ~IsDialogue(grouper_input[1])
    /\ SameSpeaker(grouper_input[2], grouper_input[3])
    /\ grouper_input[2].speaker # grouper_input[3].speaker
    /\ Len(grouper_output.v) = 1

-----------------------------------------------------------------------------
(* Properties of _parse_paragraph on narration                             *)

RECURSIVE FindIter(_, _, _, _)
\* list(regex.finditer(text)) from offset pos on
FindIter(r, text, pos, ic) ==
    LET match == SearchFrom(r, text, pos, ic)
    IN  IF match.none THEN <<>>
        ELSE <<match.v>> \o FindIter(r, text, match.v.end, ic)

\* the quoted spans of the paragraph
QuotedSpans(paragraph) == FindIter(dialogue_pattern, paragraph, 0, FALSE)

\* no pattern matches in the window after or before the span
Unattributed(paragraph, span) ==
    _extract_speaker(paragraph, span.start, span.end).window = "none"

\* C13: a paragraph whose quoted spans have no attribution in either window
\* comes back as one Narration segment that holds the whole paragraph, its
\* quotation marks included, and no Dialogue segment.
C13_UnattributedQuoteIsNarration ==
    LET spans == QuotedSpans(parsed_paragraph)
    IN  (/\ ~parsed_segments.none
         /\ spans # <<>>
         /\ \A k \in 1..Len(spans) : Unattributed(parsed_paragraph, spans[k]))
            => parsed_segments.v = <<Segment(strip(parsed_paragraph), NARRATION, None)>>

\* C14: a paragraph that is not blank and holds no quoted span comes back
\* as exactly one segment, a Narration without speaker whose text is the
\* trimmed paragraph.
C14_NoQuoteIsOneNarration ==
    (~parsed_segments.none /\ QuotedSpans(parsed_paragraph) = <<>>)
        => parsed_segments.v = <<Segment(strip(parsed_paragraph), NARRATION, None)>>

\* a parsed paragraph with whitespace around it and a quotation mark in it
\* that opens no span
C14_Witness ==
    /\ ~parsed_segments.none
    /\ QuotedSpans(parsed_paragraph) = <<>>
    /\ strip(parsed_paragraph) # parsed_paragraph
    /\ \E i \in 1..Len(parsed_paragraph) : parsed_paragraph[i] \in QuoteMarks

-----------------------------------------------------------------------------
(* TextBookParser._roman_to_int                                            *)

Digits == <<"0", "1", "2", "3", "4", "5", "6", "7", "8", "9">>

DigitSet == {Digits[i] : i \in 1..Len(Digits)}

DigitValue == [c \in DigitSet |-> (CHOOSE i \in 1..Len(Digits) : Digits[i] = c) - 1]

\* str.isdigit() (for the decimal digits the inputs can hold)
isdigit(s) == s # <<>> /\ \A i \in 1..Len(s) : s[i] \in DigitSet

RECURSIVE int(_)
\* int(s) of a string of decimal digits
int(s) ==
    IF s = <<>> THEN 0
    ELSE int(SubSeq(s, 1, Len(s) - 1)) * 10 + DigitValue[s[Len(s)]]

\* str.upper()
upper(s) == [i \in 1..Len(s) |-> UpperChar(s[i])]

roman_map ==
    [c \in {"I", "V", "X", "L", "C", "D", "M"} |->
        CASE c = "I" -> 1 [] c = "V" -> 5 [] c = "X" -> 10 [] c = "L" -> 50
          [] c = "C" -> 100 [] c = "D" -> 500 [] c = "M" -> 1000]

RECURSIVE RomanLoop_SubtractEqual(_, _, _, _)
\* the loop subtracting a value that equals the value to its right
RomanLoop_SubtractEqual(roman, i, result, prev_value) ==
    IF i = 0 THEN result
    ELSE LET value == IF roman[i] \in DOMAIN roman_map THEN roman_map[roman[i]] ELSE 0
         IN  RomanLoop_SubtractEqual(roman, i - 1,
                                     IF value <= prev_value THEN result - value
                                     ELSE result + value,
                                     value)

RECURSIVE RomanLoop(_, _, _, _)
\* for char in reversed(roman), from the i-th character down to the first
RomanLoop(roman, i, result, prev_value) ==
    IF i = 0 THEN result
    ELSE LET value == IF roman[i] \in DOMAIN roman_map THEN roman_map[roman[i]] ELSE 0
         IN  RomanLoop(roman, i - 1,
                       IF value < prev_value THEN result - value ELSE result + value,
                       value)

\* TextBookParser._roman_to_int
_roman_to_int(roman) ==
    IF isdigit(roman) THEN int(roman)
    ELSE RomanLoop(upper(roman), Len(roman), 0, 0)

MaxNumber == 3999   \* the numbers whose numerals _roman_to_int is given

\* the standard numeral of a digit d in the place that writes one as one,
\* five as five and ten as ten
Place(d, one, five, ten) ==
    CASE d = 0 -> <<>>
      [] d = 1 -> <<one>>
      [] d = 2 -> <<one, one>>
      [] d = 3 -> <<one, one, one>>
      [] d = 4 -> <<one, five>>
      [] d = 5 -> <<five>>
      [] d = 6 -> <<five, one>>
      [] d = 7 -> <<five, one, one>>
      [] d = 8 -> <<five, one, one, one>>
      [] d = 9 -> <<one, ten>>

\* the standard subtractive Roman numeral of n
Roman(n) ==
    [k \in 1..(n \div 1000) |-> "M"]
    \o Place((n \div 100) % 10, "C", "D", "M")
    \o Place((n \div 10) % 10, "X", "L", "C")
    \o Place(n % 10, "I", "V", "X")

RECURSIVE Decimal(_)
\* str(n)
Decimal(n) ==
    IF n < 10 THEN <<Digits[n + 1]>>
    ELSE Decimal(n \div 10) \o <<Digits[(n % 10) + 1]>>

\* the numerals: standard Roman ones in upper and in lower case, and decimal
\* ones, also with a leading zero
Numerals ==
    UNION {{Roman(n), lower(Roman(n)), Decimal(n), <<"0">> \o Decimal(n)} :
              n \in 1..MaxNumber}

InitNumeral ==
    /\ ai_provider = FALSE
    /\ characters = <<>>
    /\ current_chapter = 0
    /\ held = None
    /\ last = NoCall
    /\ resolved = [d \in Descriptors |-> None]
    /\ calls = 0
    /\ parser = None
    /\ parsed_paragraph = <<>>
    /\ parsed_segments = None
    /\ grouper_input = <<>>
    /\ grouper_output = None
    /\ splitter_input = <<>>
    /\ splitter_output = None
    /\ numeral_input \in Numerals
    /\ numeral_output = None
    /\ extract_input = None
    /\ extract_output = None
    /\ narrator_voice = <<>>
    /\ _character_voices = <<>>
    /\ _available_voices = <<>>
    /\ _next_voice_index = 0
    /\ voice_last = None
    /\ requested = <<>>
    /\ voiced = {}
    /\ voice_given = <<>>
    /\ voice_calls = 0
    /\ workers = <<>>

\* chapter_num = self._roman_to_int(roman)
RomanToInt ==
    /\ numeral_output = None
    /\ numeral_output' = Some(_roman_to_int(numeral_input))
    /\ UNCHANGED <<registry_vars, parser_vars, grouper_vars, splitter_vars, numeral_input, extract_vars, voice_vars, worker_vars>>

NextNumeral == RomanToInt

SpecNumeral == InitNumeral /\ [][NextNumeral]_vars

\* C19: the value of the standard Roman numeral of n, in upper or in lower
\* case, is n for every n in 1..3999, and the value of a string of decimal
\* digits is the number it writes.
C19_RomanToInt ==
    ~numeral_output.none =>
        /\ numeral_output.v \in 1..MaxNumber
        /\ numeral_input \in {Roman(numeral_output.v), lower(Roman(numeral_output.v)),
                              Decimal(numeral_output.v),
                              <<"0">> \o Decimal(numeral_output.v)}

\* the lower-case numeral of 1994, which subtracts three times
C19_Witness ==
    /\ ~numeral_output.none
    /\ numeral_input = <<"m", "c", "m", "x", "c", "i", "v">>
    /\ numeral_output.v = 1994

-----------------------------------------------------------------------------
(* TextBookParser.parse                                                    *)

\* dataclass Chapter and dataclass Book
Chapter(number, title, segments) ==
    [number |-> number, title |-> title, segments |-> segments]

Book(title, author, chapters) == [title |-> title, author |-> author, chapters |-> chapters]

\* any character but a newline
NotNewline(min) == Cls({"\n"}, TRUE, min)

\* re.search(r'Title:\s*(.+)', content)
_extract_title(content) ==
    LET title_match == search(Cat(<<Lit(<<"T", "i", "t", "l", "e", ":">>), Cls(Whitespace, FALSE, 0),
                                    Cap(NotNewline(1))>>), content, FALSE)
    IN  IF ~title_match.none THEN strip(group(content, title_match.v))
        ELSE <<"U", "n", "k", "n", "o", "w", "n">>

\* re.search(r'Author:\s*(.+)', content)
_extract_author(content) ==
    LET author_match == search(Cat(<<Lit(<<"A", "u", "t", "h", "o", "r", ":">>), Cls(Whitespace, FALSE, 0),
                                     Cap(NotNewline(1))>>), content, FALSE)
    IN  IF ~author_match.none THEN Some(strip(group(content, author_match.v)))
        ELSE None

\* r'\*\*\* START OF .*? \*\*\*', r'Chapter I\.?[\]\s]', r'CHAPTER I\.?[\]\s]'
markers ==
    <<Cat(<<Lit(<<"*", "*", "*", " ", "S", "T", "A", "R", "T", " ", "O", "F", " ">>), LazyCls({"\n"}, TRUE, 0), Lit(<<" ", "*", "*", "*">>)>>),
      Cat(<<Lit(<<"C", "h", "a", "p", "t", "e", "r", " ", "I">>), Opt(Lit(<<".">>)), One({"]"} \cup Whitespace, FALSE)>>),
      Cat(<<Lit(<<"C", "H", "A", "P", "T", "E", "R", " ", "I">>), Opt(Lit(<<".">>)), One({"]"} \cup Whitespace, FALSE)>>)>>

\* TextBookParser._find_content_start: where the first marker that matches
\* anywhere matches first, 0 when no marker matches
_find_content_start(content) ==
    LET matching == SelectSeq([i \in 1..Len(markers) |-> i],
                              LAMBDA i : ~search(markers[i], content, TRUE).none)
    IN  IF matching # <<>> THEN search(markers[matching[1]], content, TRUE).v.start
        ELSE 0

RECURSIVE SplitOn(_, _, _, _)
\* s.split(sep) from position i on, cur being the piece under construction
SplitOn(s, sep, i, cur) ==
    IF i > Len(s) THEN <<cur>>
    ELSE IF i + Len(sep) - 1 <= Len(s) /\ SubSeq(s, i, i + Len(sep) - 1) = sep
         THEN <<cur>> \o SplitOn(s, sep, i + Len(sep), <<>>)
         ELSE SplitOn(s, sep, i + 1, Append(cur, s[i]))

\* str.startswith
startswith(s, prefix) == Len(s) >= Len(prefix) /\ SubSeq(s, 1, Len(prefix)) = prefix

\* TextBookParser._parse_chapter_content
_parse_chapter_content(content, chapter_num, title) ==
    LET pieces == SplitOn(content, <<"\n", "\n">>, 1, <<>>)
        stripped == [i \in 1..Len(pieces) |-> strip(pieces[i])]
        paragraphs == SelectSeq(stripped, LAMBDA q : q # <<>>)
        kept == SelectSeq(paragraphs,
                          LAMBDA q : ~(startswith(q, <<"[", "I", "l", "l", "u", "s", "t", "r", "a", "t", "i", "o", "n">>)
                                       \/ startswith(q, <<"_", "C", "o", "p", "y", "r", "i", "g", "h", "t">>)))
    IN  Chapter(chapter_num, title,
                Concat([i \in 1..Len(kept) |-> _parse_paragraph(kept[i])]))

\* r'^Chapter\s+([IVXLCDM]+|\d+)\.[\]\s]*$', re.IGNORECASE | re.MULTILINE
chapter_pattern ==
    Cat(<<Bol, Lit(<<"C", "h", "a", "p", "t", "e", "r">>), Cls(Whitespace, FALSE, 1),
          Cap(Alt(<<Cls(DOMAIN roman_map, FALSE, 1), Cls(DigitSet, FALSE, 1)>>)),
          Lit(<<".">>), Cls({"]"} \cup Whitespace, FALSE, 0), Eol>>)

\* TextBookParser._parse_chapters
_parse_chapters(content) ==
    LET chapter_matches == FindIter(chapter_pattern, content, 0, TRUE)
    IN  IF chapter_matches = <<>>
        THEN <<_parse_chapter_content(content, 1, <<"C", "h", "a", "p", "t", "e", "r", " ", "I">>)>>
        ELSE [i \in 1..Len(chapter_matches) |->
                LET match == chapter_matches[i]
                    chapter_num == _roman_to_int(group(content, match))
                    chapter_title == <<"C", "h", "a", "p", "t", "e", "r", " ">> \o group(content, match)
                    start_pos == match.end
                    end_pos == IF i + 1 <= Len(chapter_matches)
                               THEN chapter_matches[i + 1].start
                               ELSE Len(content)
                IN  _parse_chapter_content(Slice(content, start_pos, end_pos),
                                           chapter_num, chapter_title)]

\* TextBookParser.parse, of the content read from the file
parse(file_content) ==
    LET title == _extract_title(file_content)
        author == _extract_author(file_content)
        content_start == _find_content_start(file_content)
        content == Slice(file_content, content_start, Len(file_content))
    IN  Book(title, author, _parse_chapters(content))

\* the blocks a file is made of
b_header == <<"T", "i", "t", "l", "e", ":", " ", "T", "\n", "A", "u", "t", "h", "o", "r", ":", " ", "A">>

b_start == <<"*", "*", "*", " ", "S", "T", "A", "R", "T", " ", "O", "F", " ", "X", " ", "*", "*", "*">>

b_preface == <<"P", "r", "e", "f", "a", "c", "e", ".">>

b_chapter_I == <<"C", "h", "a", "p", "t", "e", "r", " ", "I", ".">>

b_chapter_II == <<"C", "H", "A", "P", "T", "E", "R", " ", "I", "I", ".", "]">>

b_chapter_3 == <<"C", "h", "a", "p", "t", "e", "r", " ", "3", ".">>

b_quote == <<"\"", "H", "i", ",", "\"", " ", "s", "a", "i", "d", " ", "J", "o", ".">>

b_illustration == <<"[", "I", "l", "l", "u", "s", "t", "r", "a", "t", "i", "o", "n", "]">>

b_mention == <<"S", "e", "e", " ", "c", "h", "a", "p", "t", "e", "r", " ", "i", ".", " ", "n", "o", "w">>

Blocks == {b_header, b_start, b_preface, b_chapter_I, b_chapter_II, b_chapter_3, b_quote, b_illustration, b_mention}

MaxBlocks == 3      \* a file is made of at most this many blocks

\* what separates the blocks of one file: a blank line or a line break
Separators == {<<"\n", "\n">>, <<"\n">>}

FileContents ==
    UNION {UNION {{join(sep, blocks) : blocks \in [1..n -> Blocks]} : n \in 1..MaxBlocks} :
              sep \in Separators}

InitSplitter ==
    /\ ai_provider = FALSE
    /\ characters = <<>>
    /\ current_chapter = 0
    /\ held = None
    /\ last = NoCall
    /\ resolved = [d \in Descriptors |-> None]
    /\ calls = 0
    /\ parser = Some(TextBookParser({}))
    /\ parsed_paragraph = <<>>
    /\ parsed_segments = None
    /\ grouper_input = <<>>
    /\ grouper_output = None
    /\ splitter_input \in FileContents
    /\ splitter_output = None
    /\ numeral_input = <<>>
    /\ numeral_output = None
    /\ extract_input = None
    /\ extract_output = None
    /\ narrator_voice = <<>>
    /\ _character_voices = <<>>
    /\ _available_voices = <<>>
    /\ _next_voice_index = 0
    /\ voice_last = None
    /\ requested = <<>>
    /\ voiced = {}
    /\ voice_given = <<>>
    /\ voice_calls = 0
    /\ workers = <<>>

\* book = parser.parse(file_path)
Parse ==
    /\ ~parser.none /\ parser.v.constructed
    /\ splitter_output = None
    /\ splitter_output' = Some(parse(splitter_input))
    /\ UNCHANGED <<registry_vars, parser_vars, grouper_vars, numeral_vars, splitter_input, extract_vars, voice_vars, worker_vars>>

NextSplitter == Parse

SpecSplitter == InitSplitter /\ [][NextSplitter]_vars

\* the content parse hands to _parse_chapters
ContentOf(file_content) ==
    Slice(file_content, _find_content_start(file_content), Len(file_content))

\* the text between the content start and the first chapter boundary
LeadingText(file_content) ==
    LET boundaries == FindIter(chapter_pattern, ContentOf(file_content), 0, TRUE)
    IN  IF boundaries = <<>> THEN None
        ELSE Some(Slice(ContentOf(file_content), 0, boundaries[1].start))

\* C15: when text that is not blank lies between the content start and the
\* first chapter boundary, the first chapter of the book is numbered 0 and
\* holds segments, and the chapter of the first boundary comes second.
C15_PrefaceIsChapterZero ==
    (/\ ~splitter_output.none
     /\ ~LeadingText(splitter_input).none
     /\ strip(LeadingText(splitter_input).v) # <<>>)
        => LET chapters == splitter_output.v.chapters
           IN  /\ Len(chapters) >= 2
               /\ chapters[1].number = 0
               /\ chapters[1].segments # <<>>

-----------------------------------------------------------------------------
(* Properties of the names and records identify_speaker gives              *)

\* name is the descriptor with each whitespace-separated word capitalized:
\* as many words, each the descriptor's word with its first character in
\* upper case and the others in lower case, one space between them
WordsCapitalized(name, descriptor) ==
    LET words == split(descriptor)
        names == split(name)
    IN  /\ Len(names) = Len(words)
        /\ \A i \in 1..Len(words) :
              /\ Len(names[i]) = Len(words[i])
              /\ names[i][1] = UpperChar(words[i][1])
              /\ \A k \in 2..Len(words[i]) : names[i][k] = LowerChar(words[i][k])
        /\ name = join(<<" ">>, names)

\* the call reached generate and came back with the fallback name: generate
\* raised, returned text that is no JSON, or returned JSON without speaker
FellBack(l) ==
    /\ l.op = "identify_speaker" /\ l.ai_called /\ ~l.raised
    /\ \/ l.outcome.kind \in {"raise", "text"}
       \/ l.outcome.kind = "json" /\ ~l.outcome.result.is_object
       \/ ReturnedObject(l) /\ ~l.outcome.result.has_speaker

\* C16 as stated: on every fallback the returned name is the descriptor
\* without its leading honorific and, of several words, its last word only.
C16_FallbackIsSpeakerNormalizer ==
    [][ (IdentifyStep /\ FellBack(last'))
        => last'.ret = _normalize_speaker_name(last'.descriptor)
      ]_vars

\* C16 as amended: on every fallback the returned name keeps every word of
\* the descriptor, each capitalized.
C16_FallbackKeepsEveryWord ==
    [][ (IdentifyStep /\ FellBack(last'))
        => WordsCapitalized(last'.ret, last'.descriptor)
      ]_vars

\* JSON without speaker for a descriptor of two words
C16_Witness ==
    /\ FellBack(last) /\ ReturnedObject(last)
    /\ last.descriptor = s_x_y
    /\ last.ret = <<"X", " ", "Y">>

C18_FirstSeenChapter ==
    [][ (IdentifyStep /\ last'.ai_called /\ last'.exc = "none")
        => \A e \in Elems(AppliedEntries(last'.outcome)) :
              ~HasKey(characters, e.name)
                 => /\ HasKey(characters', e.name)
                    /\ characters'[KeyIndex(characters', e.name)].character.first_seen_chapter
                          = IF e.data.has_chapter THEN e.data.first_seen_chapter
                            ELSE current_chapter
      ]_vars

\* after set_chapter, one call creates a record with the chapter the
\* response gives and a record with the current chapter
C18_Witness ==
    /\ last.op = "identify_speaker" /\ last.ai_called /\ last.exc = "none"
    /\ calls = 1 /\ current_chapter = MaxChapter
    /\ Len(characters) = 2
    /\ characters[1].character.first_seen_chapter = AiChapter
    /\ characters[2].character.first_seen_chapter = current_chapter

\* a registry that receives set_chapter and identify_speaker calls only
NextCalls == Identify \/ SetChapterAny

SpecCalls == InitRegistry /\ [][NextCalls]_vars

\* C20: once a descriptor resolves to a canonical name, no later set_chapter
\* or identify_speaker call makes it resolve to another name or to none.
C20_ResolutionStable ==
    [][ \A d \in Descriptors :
           Truthy(get_canonical_name(characters, d))
              => get_canonical_name(characters', d) = get_canonical_name(characters, d)
      ]_vars

-----------------------------------------------------------------------------
(* Properties of SegmentGrouper on narration                               *)

IsNarration(segment) == segment.segment_type = NARRATION

Narrations(segments) == SelectSeq(segments, IsNarration)

\* the trimmed text starts with a character of the set
StartsWith(text, set) == strip(text) # <<>> /\ strip(text)[1] \in set

\* the rule as stated, between the segments i - 1 and i: both Narration, and
\* the one before is short or this one starts with a lower-case letter
StatedJoin(segments, i) ==
    /\ IsNarration(segments[i - 1]) /\ IsNarration(segments[i])
    /\ \/ Len(strip(segments[i - 1].text)) < ShortNarration
       \/ StartsWith(segments[i].text, LowerSet)

RECURSIVE RunStart(_, _)
\* where the run of merged Narration segments that holds the i-th begins,
\* when a segment joins the run before it if what the run has gathered so
\* far is short or the segment starts with anything but an upper-case letter
RunStart(segments, i) ==
    IF i = 1 \/ ~IsNarration(segments[i - 1]) THEN i
    ELSE LET start == RunStart(segments, i - 1)
             gathered == IF start = i - 1 THEN strip(segments[start].text)
                         ELSE JoinTrimmed(segments, start, i - 1)
         IN  IF \/ Len(gathered) < ShortNarration
                \/ (strip(segments[i].text) # <<>>
                    /\ ~StartsWith(segments[i].text, UpperSet))
             THEN start ELSE i

\* the Narration segments that begin a run, given where runs begin, each with
\* the text of its run: as it is for a run of one, else the trimmed texts
\* that are not empty joined with single spaces
NarrationRuns(segments, begins) ==
    LET starts == SelectSeq([i \in 1..Len(segments) |-> i],
                            LAMBDA i : IsNarration(segments[i]) /\ i \in begins)
    IN  [k \in 1..Len(starts) |->
            LET i == starts[k]
                j == CHOOSE e \in i..Len(segments) :
                        /\ \A n \in (i + 1)..e : IsNarration(segments[n]) /\ n \notin begins
                        /\ (e = Len(segments) \/ ~IsNarration(segments[e + 1])
                            \/ (e + 1) \in begins)
            IN  Segment(IF j = i THEN segments[i].text ELSE JoinTrimmed(segments, i, j),
                        NARRATION, segments[i].speaker)]

StatedBegins(segments) ==
    {i \in 1..Len(segments) : i = 1 \/ ~StatedJoin(segments, i)}

GatheredBegins(segments) ==
    {i \in 1..Len(segments) : RunStart(segments, i) = i}

\* the fragment is at most 15 characters long and holds an attribution word
ShortAttribution(segment) ==
    /\ Len(strip(segment.text)) <= LongAttribution
    /\ \E w \in Elems(split(lower(strip(segment.text)))) : w \in attribution_words

\* the fragment is at most 15 characters long and made of attribution words
SolelyAttribution(segment) ==
    /\ Len(strip(segment.text)) <= LongAttribution
    /\ split(strip(segment.text)) # <<>>
    /\ \A w \in Elems(split(lower(strip(segment.text)))) : w \in attribution_words

Surviving(runs) == SelectSeq(runs, LAMBDA g : ~ShortAttribution(g))

\* C22 as stated: adjacent Narration segments are merged exactly when the one
\* before is shorter than 50 characters trimmed or the one after starts with
\* a lower-case letter; the output's Narration segments are those runs.
C22_NarrationMergeStated ==
    ~grouper_output.none =>
        Narrations(grouper_output.v)
            = Surviving(NarrationRuns(grouper_input, StatedBegins(grouper_input)))

\* C22 as amended: a Narration segment is merged into the run before it
\* exactly when the text the run has gathered so far is shorter than 50
\* characters or the segment's trimmed text is not empty and does not start
\* with an upper-case letter (a digit or a punctuation mark continues too).
C22_NarrationMergeGathered ==
    ~grouper_output.none =>
        Narrations(grouper_output.v)
            = Surviving(NarrationRuns(grouper_input, GatheredBegins(grouper_input)))

\* a long Narration continued by one that starts with a digit, and a third
\* that starts upper-case and stays apart
C22_Witness ==
    /\ ~grouper_output.none
    /\ grouper_input = <<g_night, g_two, g_he>>
    /\ Len(grouper_output.v) = 2

\* C23 as stated: a Narration run is missing from the output only if it is
\* at most 15 characters long and made of attribution words alone.
C23_DropsSolelyAttribution ==
    ~grouper_output.none =>
        \A g \in Elems(NarrationRuns(grouper_input, GatheredBegins(grouper_input))) :
            g \notin Elems(grouper_output.v) => SolelyAttribution(g)

\* C23 as amended: a Narration run is missing from the output exactly when
\* its trimmed text is at most 15 characters long and holds at least one
\* attribution word, whatever its other words are.
C23_DropsShortAttribution ==
    ~grouper_output.none =>
        \A g \in Elems(NarrationRuns(grouper_input, GatheredBegins(grouper_input))) :
            g \notin Elems(grouper_output.v) <=> ShortAttribution(g)

\* 'said Jo' between two Dialogue segments is dropped, a longer attribution
\* is kept
C23_Witness ==
    /\ ~grouper_output.none
    /\ grouper_input = <<g_said, g_hi_Jo, g_said_long>>
    /\ grouper_output.v = <<g_hi_Jo, g_said_long>>

\* C28: no two adjacent segments of the output are Dialogue segments whose
\* speakers are known and equal ignoring case.
C28_FullyMerged ==
    ~grouper_output.none =>
        \A i \in 2..Len(grouper_output.v) :
            ~SameSpeaker(grouper_output.v[i - 1], grouper_output.v[i])

-----------------------------------------------------------------------------
(* TextBookParser._extract_speaker as a state machine                      *)

\* what stands before the dialogue
p_name_said == <<"A", "l", " ", "s", "a", "i", "d", " ">>

p_said_his == <<"s", "a", "i", "d", " ", "h", "i", "s", " ", "m", "a", "n", " ">>

p_cried_to == <<"c", "r", "i", "e", "d", " ", "A", "l", " ", "t", "o", " ", "u", "s", ".", " ">>

PreChunks == {<<>>, p_name_said, p_said_his, p_cried_to}

\* what stands after the dialogue
PostChunks == {c_said_name, c_said_to, c_name_said, c_said_his, c_she}

MaxPostChunks == 2  \* at most this many pieces follow the dialogue

\* a run of n characters no attribution pattern matches in
Filler(n) == [i \in 1..n |-> "-"]

\* the lengths of the runs before and after the dialogue: none, or lengths
\* that leave an attribution inside a window or across its edge
FillerLengths ==
    LET inside == AttributionWindow - 8
        across == AttributionWindow - 7
    IN  {<<0, 0>>, <<inside, 0>>, <<across, 0>>, <<0, inside>>, <<0, across>>,
         <<across, inside>>}

\* the paragraphs: one quoted span with text around it
ExtractParagraphs ==
    {pre \o Filler(n[1]) \o c_quote \o Filler(n[2]) \o Concat(post) :
        pre \in PreChunks, n \in FillerLengths,
        post \in UNION {[1..k -> PostChunks] : k \in 0..MaxPostChunks}}

\* the calls _parse_paragraph makes: the span of a match of dialogue_pattern
ExtractCalls ==
    UNION {{[paragraph |-> p, dialogue_start |-> span.start, dialogue_end |-> span.end] :
               span \in Elems(QuotedSpans(p))} : p \in ExtractParagraphs}

InitExtract ==
    /\ ai_provider = FALSE
    /\ characters = <<>>
    /\ current_chapter = 0
    /\ held = None
    /\ last = NoCall
    /\ resolved = [d \in Descriptors |-> None]
    /\ calls = 0
    /\ parser = Some(TextBookParser({}))
    /\ parsed_paragraph = <<>>
    /\ parsed_segments = None
    /\ grouper_input = <<>>
    /\ grouper_output = None
    /\ splitter_input = <<>>
    /\ splitter_output = None
    /\ numeral_input = <<>>
    /\ numeral_output = None
    /\ extract_input \in ExtractCalls
    /\ extract_output = None
    /\ narrator_voice = <<>>
    /\ _character_voices = <<>>
    /\ _available_voices = <<>>
    /\ _next_voice_index = 0
    /\ voice_last = None
    /\ requested = <<>>
    /\ voiced = {}
    /\ voice_given = <<>>
    /\ voice_calls = 0
    /\ workers = <<>>

\* speaker, attribution_end = self._extract_speaker(paragraph, start, end)
ExtractSpeaker ==
    /\ ~parser.none /\ parser.v.constructed
    /\ extract_output = None
    /\ extract_output' = Some(_extract_speaker(extract_input.paragraph,
                                               extract_input.dialogue_start,
                                               extract_input.dialogue_end))
    /\ UNCHANGED <<registry_vars, parser_vars, pure_vars, extract_input, voice_vars, worker_vars>>

NextExtract == ExtractSpeaker

SpecExtract == InitExtract /\ [][NextExtract]_vars

\* the at most 100 characters after, and before, the dialogue of the call
AfterWindow(call) ==
    Slice(call.paragraph, call.dialogue_end, call.dialogue_end + AttributionWindow)

BeforeWindow(call) ==
    Slice(call.paragraph,
          IF call.dialogue_start > AttributionWindow
          THEN call.dialogue_start - AttributionWindow ELSE 0,
          call.dialogue_start)

\* what the first shape, in the fixed order, that matches in the text gives:
\* the shape, the speaker it names and where its match ends; None when no
\* shape matches
AttributionIn(text) ==
    LET found == [k \in 1..Len(ATTRIBUTION_PATTERNS) |->
                     search(ATTRIBUTION_PATTERNS[k], text, TRUE)]
        shapes == {k \in DOMAIN found : ~found[k].none}
    IN  IF shapes = {} THEN None
        ELSE LET first == CHOOSE k \in shapes : \A n \in shapes : k <= n
             IN  Some([shape |-> first,
                       others |-> shapes \ {first},
                       speaker |-> _normalize_speaker_name(strip(group(text, found[first].v))),
                       end |-> found[first].v.end])

\* C24: when a shape matches in the window after the dialogue, the speaker
\* is the one the first such shape names there, whatever stands before the
\* dialogue; the window before is used, with the same order of shapes, only
\* when no shape matches after, and without a match the speaker is None.
C24_AfterWindowFirst ==
    ~extract_output.none =>
        LET after == AttributionIn(AfterWindow(extract_input))
        IN  extract_output.v.speaker =
                IF ~after.none THEN Some(after.v.speaker)
                ELSE LET before == AttributionIn(BeforeWindow(extract_input))
                     IN  IF ~before.none THEN Some(before.v.speaker) ELSE None

\* after the dialogue two shapes match, before it a shape matches that names
\* another speaker
C24_Witness ==
    /\ ~extract_output.none
    /\ extract_input.paragraph = p_name_said \o c_quote \o c_said_to \o c_said_his
    /\ extract_output.v.speaker = Some(s_Jo)

\* C25: attribution_end is never less than dialogue_end; it is dialogue_end
\* when no shape matches after the dialogue (speaker None or a match before
\* it), and for a match after the dialogue it is the end of the matched
\* clause, which lies beyond dialogue_end.
C25_AttributionEnd ==
    ~extract_output.none =>
        LET after == AttributionIn(AfterWindow(extract_input))
            attribution_end == extract_output.v.attribution_end
        IN  /\ attribution_end >= extract_input.dialogue_end
            /\ extract_output.v.speaker.none => attribution_end = extract_input.dialogue_end
            /\ after.none => attribution_end = extract_input.dialogue_end
            /\ ~after.none
                  => /\ attribution_end = extract_input.dialogue_end + after.v.end
                     /\ attribution_end > extract_input.dialogue_end

\* a match after the dialogue that ends before the paragraph does
C25_Witness ==
    /\ ~extract_output.none
    /\ extract_input.paragraph = c_quote \o c_said_name \o c_she
    /\ extract_output.v.attribution_end > extract_input.dialogue_end
    /\ extract_output.v.attribution_end < Len(extract_input.paragraph)

-----------------------------------------------------------------------------
(* Properties of CharacterRegistry.get_canonical_name                      *)

\* the descriptors get_canonical_name is looked up with
LookupDescriptors == Descriptors \cup {s_Ab, s_Cd}

\* the records whose canonical name equals the descriptor ignoring case
NamedLike(chars, descriptor) ==
    {i \in 1..Len(chars) : lower(chars[i].name) = lower(descriptor)}

\* the records that hold the descriptor, ignoring case, as an alias
AliasedLike(chars, descriptor) ==
    {i \in 1..Len(chars) :
        \E a \in Elems(chars[i].character.aliases) : lower(a) = lower(descriptor)}

\* C26: when the descriptor equals ignoring case the canonical
\* name of a record, get_canonical_name returns such a canonical name, even
\* when the descriptor is an alias of another record.
C26_NameBeforeAlias ==
    \A d \in LookupDescriptors :
        NamedLike(characters, d) # {}
            => \E i \in NamedLike(characters, d) :
                  get_canonical_name(characters, d) = Some(characters[i].name)

\* a descriptor that is the canonical name of one record and an alias of an
\* earlier one, after the calls that built the registry
C26_Witness ==
    /\ last.op = "identify_speaker"
    /\ \E d \in LookupDescriptors :
          \E i \in NamedLike(characters, d) :
              /\ \E j \in 1..(i - 1) : j \in AliasedLike(characters, d)
              /\ get_canonical_name(characters, d) # Some(characters[i].name)

-----------------------------------------------------------------------------
(* The registry under identify_speaker                                     *)

\* every record of before is a record of after, at its place in the
\* insertion order, with every alias it had and its first-seen chapter
Grown(before, after) ==
    /\ Len(before) <= Len(after)
    /\ \A i \in 1..Len(before) :
          /\ after[i].name = before[i].name
          /\ Elems(before[i].character.aliases) \subseteq Elems(after[i].character.aliases)
          /\ after[i].character.first_seen_chapter = before[i].character.first_seen_chapter

\* C27: a call of identify_speaker, whatever the AI responds, removes no
\* record, removes no alias of a record and changes no record's first-seen
\* chapter; a step that loses a record or an alias is a from_dict.
C27_RegistryOnlyGrows ==
    [][ /\ IdentifyStep => Grown(characters, characters')
        /\ ~Grown(characters, characters') => last'.op = "from_dict"
      ]_vars

\* the AI returned a registry that omits a stored character and lists, for
\* another, fewer aliases than are stored: both are kept whole
C27_Witness ==
    /\ last.op = "identify_speaker" /\ last.ai_called /\ last.exc = "none"
    /\ \E i \in 1..Len(characters) :
          \A en \in Elems(AppliedEntries(last.outcome)) : en.name # characters[i].name
    /\ \E en \in Elems(AppliedEntries(last.outcome)) :
          /\ en.data.has_aliases
          /\ HasKey(characters, en.name)
          /\ \E a \in Elems(characters[KeyIndex(characters, en.name)].character.aliases) :
                a \notin Elems(en.data.aliases)

-----------------------------------------------------------------------------
(* VoiceAssigner                                                           *)

\* an entry of a dict from character to voice
VoiceItem(character, voice_id) == [name |-> character, voice_id |-> voice_id]

\* d[character] = voice_id on an insertion-ordered dict
SetVoice(d, character, voice_id) ==
    IF HasKey(d, character)
    THEN [d EXCEPT ![KeyIndex(d, character)].voice_id = voice_id]
    ELSE Append(d, VoiceItem(character, voice_id))

\* d[character]
VoiceOf(d, character) == d[KeyIndex(d, character)].voice_id

\* VoiceAssigner.__init__
VoiceAssigner(voice) ==
    [narrator_voice |-> voice, _character_voices |-> <<>>,
     _available_voices |-> <<>>, _next_voice_index |-> 0]

\* VoiceAssigner.set_available_voices: the assigner after the call
set_available_voices(self, voices) ==
    [self EXCEPT !._available_voices = voices, !._next_voice_index = 0]

\* VoiceAssigner.assign_voice_to_character: the assigner after the call
assign_voice_to_character(self, character, voice_id) ==
    [self EXCEPT !._character_voices = SetVoice(@, lower(character), voice_id)]

\* get_voice_for_character that stays on the last voice of an exhausted pool
get_voice_for_character_NoWrap(self, character) ==
    IF character = None THEN [self |-> self, ret |-> self.narrator_voice]
    ELSE LET key == lower(character.v)
             n == Len(self._available_voices)
         IN  IF HasKey(self._character_voices, key)
             THEN [self |-> self, ret |-> VoiceOf(self._character_voices, key)]
             ELSE IF self._available_voices # <<>>
             THEN LET index == IF self._next_voice_index < n
                               THEN self._next_voice_index ELSE n - 1
                      voice_id == self._available_voices[index + 1]
                  IN  [self |-> [self EXCEPT
                                   !._character_voices = SetVoice(@, key, voice_id),
                                   !._next_voice_index = @ + 1],
                       ret |-> voice_id]
             ELSE [self |-> self, ret |-> self.narrator_voice]

\* VoiceAssigner.get_voice_for_character: the assigner after the call and
\* the voice returned
get_voice_for_character(self, character) ==
    IF character = None THEN [self |-> self, ret |-> self.narrator_voice]
    ELSE LET key == lower(character.v)
         IN  IF HasKey(self._character_voices, key)
             THEN [self |-> self, ret |-> VoiceOf(self._character_voices, key)]
             ELSE IF self._available_voices # <<>>
             THEN LET voice_id ==
                        self._available_voices[
                            (self._next_voice_index % Len(self._available_voices)) + 1]
                  IN  [self |-> [self EXCEPT
                                   !._character_voices = SetVoice(@, key, voice_id),
                                   !._next_voice_index = @ + 1],
                       ret |-> voice_id]
             ELSE [self |-> self, ret |-> self.narrator_voice]

v_narrator == <<"n">>

v_1 == <<"v", "1">>

v_2 == <<"v", "2">>

v_hand == <<"h">>

s_Bo == <<"B", "o">>

\* the pools set_available_voices is given
VoicePools == {<<>>, <<v_1>>, <<v_1, v_2>>}

\* the characters get_voice_for_character is asked for
RequestedCharacters == {None, Some(s_Jo), Some(s_jo), Some(s_Al), Some(s_Bo)}

\* the characters a voice is assigned to by hand
AssignedCharacters == {s_Jo, s_Al}

\* the number of VoiceAssigner operations in a behaviour
MaxVoiceCalls == 5

\* the assigner the variables hold
Assigner ==
    [narrator_voice |-> narrator_voice, _character_voices |-> _character_voices,
     _available_voices |-> _available_voices, _next_voice_index |-> _next_voice_index]

\* the variables take the fields of the assigner
Becomes(self) ==
    /\ narrator_voice' = self.narrator_voice
    /\ _character_voices' = self._character_voices
    /\ _available_voices' = self._available_voices
    /\ _next_voice_index' = self._next_voice_index

VoiceCall(op, character, ret) == Some([op |-> op, character |-> character, ret |-> ret])

InitVoices ==
    /\ ai_provider = FALSE
    /\ characters = <<>>
    /\ current_chapter = 0
    /\ held = None
    /\ last = NoCall
    /\ resolved = [d \in Descriptors |-> None]
    /\ calls = 0
    /\ parser = None
    /\ parsed_paragraph = <<>>
    /\ parsed_segments = None
    /\ grouper_input = <<>>
    /\ grouper_output = None
    /\ splitter_input = <<>>
    /\ splitter_output = None
    /\ numeral_input = <<>>
    /\ numeral_output = None
    /\ extract_input = None
    /\ extract_output = None
    /\ LET self == VoiceAssigner(v_narrator)
       IN  /\ narrator_voice = self.narrator_voice
           /\ _character_voices = self._character_voices
           /\ _available_voices = self._available_voices
           /\ _next_voice_index = self._next_voice_index
    /\ voice_last = None
    /\ requested = <<>>
    /\ voiced = {}
    /\ voice_given = <<>>
    /\ voice_calls = 0
    /\ workers = <<>>

\* assigner.set_available_voices(voices)
SetAvailableVoices(voices) ==
    /\ voice_calls < MaxVoiceCalls
    /\ voice_calls' = voice_calls + 1
    /\ Becomes(set_available_voices(Assigner, voices))
    /\ voice_last' = VoiceCall("set_available_voices", None, <<>>)
    /\ requested' = <<>>
    /\ UNCHANGED <<voiced, voice_given>>
    /\ UNCHANGED <<registry_vars, parser_vars, pure_vars, extract_vars, worker_vars>>

\* assigner.assign_voice_to_character(character, voice_id)
AssignVoiceToCharacter(character, voice_id) ==
    /\ voice_calls < MaxVoiceCalls
    /\ voice_calls' = voice_calls + 1
    /\ Becomes(assign_voice_to_character(Assigner, character, voice_id))
    /\ voice_last' = VoiceCall("assign_voice_to_character", Some(character), <<>>)
    /\ voiced' = voiced \cup {lower(character)}
    /\ LET Other(item) == item.name # lower(character)
       IN  voice_given' = SelectSeq(voice_given, Other)
    /\ UNCHANGED requested
    /\ UNCHANGED <<registry_vars, parser_vars, pure_vars, extract_vars, worker_vars>>

\* voice = assigner.get_voice_for_character(character)
GetVoiceForCharacter(character) ==
    LET r == get_voice_for_character(Assigner, character)
        fresh == /\ character # None
                 /\ _available_voices # <<>>
                 /\ lower(character.v) \notin voiced
    IN  /\ voice_calls < MaxVoiceCalls
        /\ voice_calls' = voice_calls + 1
        /\ Becomes(r.self)
        /\ voice_last' = VoiceCall("get_voice_for_character", character, r.ret)
        /\ requested' = IF fresh THEN Append(requested, lower(character.v)) ELSE requested
        /\ voiced' = IF fresh THEN voiced \cup {lower(character.v)} ELSE voiced
        /\ voice_given' = IF character = None THEN voice_given
                          ELSE SetVoice(voice_given, lower(character.v), r.ret)
        /\ UNCHANGED <<registry_vars, parser_vars, pure_vars, extract_vars, worker_vars>>

SetVoices == \E voices \in VoicePools : SetAvailableVoices(voices)

AssignVoice == \E character \in AssignedCharacters : AssignVoiceToCharacter(character, v_hand)

GetVoice == \E character \in RequestedCharacters : GetVoiceForCharacter(character)

NextVoices == SetVoices \/ AssignVoice \/ GetVoice

SpecVoices == InitVoices /\ [][NextVoices]_vars

\* the step is a call of get_voice_for_character
GetVoiceStep ==
    /\ voice_calls' = voice_calls + 1
    /\ voice_last'.v.op = "get_voice_for_character"

\* C29: get_voice_for_character(None) returns the narrator voice and leaves
\* the assigner as it was; with a pool of n voices set, the k-th character,
\* ignoring case, newly requested since set_available_voices, and given no
\* voice before, receives pool[(k - 1) mod n].
C29_RoundRobin ==
    [][ GetVoiceStep
        => LET character == voice_last'.v.character
           IN  /\ character = None
                    => /\ voice_last'.v.ret = narrator_voice
                       /\ UNCHANGED <<narrator_voice, _character_voices,
                                      _available_voices, _next_voice_index>>
               /\ (/\ character # None
                   /\ _available_voices # <<>>
                   /\ lower(character.v) \notin voiced)
                    => voice_last'.v.ret =
                          _available_voices[(Len(requested) % Len(_available_voices)) + 1]
      ]_vars

\* the third character asked for with a pool of two voices: the pool wraps
C29_Witness ==
    /\ voice_last # None
    /\ voice_last.v.op = "get_voice_for_character"
    /\ voice_last.v.character = Some(s_Bo)
    /\ _available_voices = <<v_1, v_2>>
    /\ requested = <<s_jo, lower(s_Al), lower(s_Bo)>>
    /\ voice_last.v.ret = v_1

\* C30: once get_voice_for_character has returned a voice for a character,
\* every later call for that character, in any letter case, returns that
\* voice, unless assign_voice_to_character was called for it in between.
C30_VoiceStable ==
    [][ (/\ GetVoiceStep
         /\ voice_last'.v.character # None
         /\ HasKey(voice_given, lower(voice_last'.v.character.v)))
        => voice_last'.v.ret = VoiceOf(voice_given, lower(voice_last'.v.character.v))
      ]_vars

-----------------------------------------------------------------------------
(* identify_speaker called from two threads on one registry                *)

\* the threads that share the registry, each making one call
Workers == {1, 2}

\* line 193: the set the union of the stored and the returned aliases makes
MergedAliases(chars, name, data) ==
    Elems(chars[KeyIndex(chars, name)].character.aliases)
        \cup (IF data.has_aliases THEN Elems(data.aliases) ELSE {})

\* lines 194-197: the aliases and the context of the record are assigned
AssignAliases(chars, name, new_aliases, data, ord) ==
    LET i == KeyIndex(chars, name)
    IN  [chars EXCEPT ![i].character =
            [@ EXCEPT !.aliases = ListOfSet(new_aliases, ord),
                      !.context = IF data.has_context /\ data.context # <<>>
                                  THEN data.context ELSE @]]

\* lines 200-205: self.characters[name] = Character(...)
InsertCharacter(chars, cur, name, data) ==
    LET character == Character(name,
                               IF data.has_aliases THEN data.aliases ELSE <<name>>,
                               IF data.has_context THEN data.context ELSE <<>>,
                               IF data.has_chapter THEN data.first_seen_chapter ELSE cur)
    IN  IF HasKey(chars, name)
        THEN [chars EXCEPT ![KeyIndex(chars, name)].character = character]
        ELSE Append(chars, Item(name, character))

\* a thread that has not called yet
IdleWorker ==
    [pc |-> "idle", descriptor |-> <<>>, entries |-> <<>>, speaker |-> <<>>,
     k |-> 0, new_aliases |-> {}, ret |-> None]

\* the registries the threads start on
SharedRegistries == {<<>>, <<Item(s_Cd, Character(s_Cd, <<s_Cd>>, s_m, 1))>>}

\* the registries an AI response to the descriptor holds: the descriptor as
\* an alias of the stored character, of a new character, or of both
WorkerResponses(descriptor) ==
    LET data == EntryObject(TRUE, <<descriptor>>, FALSE, FALSE)
    IN  {<<[name |-> s_Cd, data |-> data]>>,
         <<[name |-> s_Ab, data |-> data]>>,
         <<[name |-> s_Cd, data |-> data], [name |-> s_Ab, data |-> data]>>}

InitWorkers ==
    /\ ai_provider = TRUE
    /\ characters \in SharedRegistries
    /\ current_chapter = 1
    /\ held = None
    /\ last = NoCall
    /\ resolved = [d \in Descriptors |-> None]
    /\ calls = 0
    /\ parser = None
    /\ parsed_paragraph = <<>>
    /\ parsed_segments = None
    /\ grouper_input = <<>>
    /\ grouper_output = None
    /\ splitter_input = <<>>
    /\ splitter_output = None
    /\ numeral_input = <<>>
    /\ numeral_output = None
    /\ extract_input = None
    /\ extract_output = None
    /\ narrator_voice = <<>>
    /\ _character_voices = <<>>
    /\ _available_voices = <<>>
    /\ _next_voice_index = 0
    /\ voice_last = None
    /\ requested = <<>>
    /\ voiced = {}
    /\ voice_given = <<>>
    /\ voice_calls = 0
    /\ workers = [w \in Workers |-> IdleWorker]

\* what a step of a thread leaves alone, the registry's dict apart
WorkerFrame ==
    UNCHANGED <<ai_provider, current_chapter, held, last, resolved, calls,
                parser_vars, pure_vars, extract_vars, voice_vars>>

\* lines 92-98: the thread calls identify_speaker; the descriptor is known
\* and returned, or the prompt is built for the AI
WorkerCalls(w, descriptor) ==
    LET canonical == get_canonical_name(characters, descriptor)
    IN  /\ workers[w].pc = "idle"
        /\ workers' = [workers EXCEPT ![w] =
              IF Truthy(canonical)
              THEN [@ EXCEPT !.pc = "done", !.descriptor = descriptor, !.ret = canonical]
              ELSE [@ EXCEPT !.pc = "generate", !.descriptor = descriptor]]
        /\ UNCHANGED characters
        /\ WorkerFrame

\* lines 110-111: generate returns the JSON text of a response
WorkerGenerates(w, entries) ==
    /\ workers[w].pc = "generate"
    /\ workers' = [workers EXCEPT ![w] =
          [@ EXCEPT !.pc = "check", !.entries = entries,
                    !.speaker = entries[1].name, !.k = 1]]
    /\ UNCHANGED characters
    /\ WorkerFrame

\* lines 110, 118-121: generate raises; the normalized descriptor is returned
WorkerFails(w) ==
    /\ workers[w].pc = "generate"
    /\ workers' = [workers EXCEPT ![w] =
          [@ EXCEPT !.pc = "done", !.ret = Some(_normalize_name(workers[w].descriptor))]]
    /\ UNCHANGED characters
    /\ WorkerFrame

\* lines 188-189 and 116: the loop takes its next entry and tests
\* `name in self.characters`, or ends and the speaker is returned
WorkerChecks(w) ==
    LET self == workers[w]
    IN  /\ self.pc = "check"
        /\ workers' = [workers EXCEPT ![w] =
              IF self.k > Len(self.entries)
              THEN [@ EXCEPT !.pc = "done", !.ret = Some(self.speaker)]
              ELSE IF HasKey(characters, self.entries[self.k].name)
              THEN [@ EXCEPT !.pc = "union"]
              ELSE [@ EXCEPT !.pc = "insert"]]
        /\ UNCHANGED characters
        /\ WorkerFrame

\* lines 191-193: new_aliases = set(character.aliases) | set(data.get(...))
WorkerUnions(w) ==
    LET self == workers[w]
        entry == self.entries[self.k]
    IN  /\ self.pc = "union"
        /\ workers' = [workers EXCEPT ![w] =
              [@ EXCEPT !.pc = "assign",
                        !.new_aliases = MergedAliases(characters, entry.name, entry.data)]]
        /\ UNCHANGED characters
        /\ WorkerFrame

\* lines 194-197: character.aliases = list(new_aliases), and the context
WorkerAssigns(w, ord) ==
    LET self == workers[w]
        entry == self.entries[self.k]
    IN  /\ self.pc = "assign"
        /\ characters' = AssignAliases(characters, entry.name, self.new_aliases,
                                       entry.data, ord)
        /\ workers' = [workers EXCEPT ![w] =
              [@ EXCEPT !.pc = "check", !.k = @ + 1, !.new_aliases = {}]]
        /\ WorkerFrame

\* lines 200-205: the new Character is stored under the name
WorkerInserts(w) ==
    LET self == workers[w]
        entry == self.entries[self.k]
    IN  /\ self.pc = "insert"
        /\ characters' = InsertCharacter(characters, current_chapter,
                                         entry.name, entry.data)
        /\ workers' = [workers EXCEPT ![w] = [@ EXCEPT !.pc = "check", !.k = @ + 1]]
        /\ WorkerFrame

Calls == \E w \in Workers, descriptor \in Descriptors : WorkerCalls(w, descriptor)

Generates ==
    \E w \in Workers :
        \E entries \in WorkerResponses(workers[w].descriptor) : WorkerGenerates(w, entries)

Fails == \E w \in Workers : WorkerFails(w)

Checks == \E w \in Workers : WorkerChecks(w)

Unions == \E w \in Workers : WorkerUnions(w)

Assigns == \E w \in Workers, ord \in HashOrders : WorkerAssigns(w, ord)

Inserts == \E w \in Workers : WorkerInserts(w)

NextWorkers == Calls \/ Generates \/ Fails \/ Checks \/ Unions \/ Assigns \/ Inserts

SpecWorkers == InitWorkers /\ [][NextWorkers]_vars

\* a thread is between the call of identify_speaker and its return
Running(w) == workers[w].pc \notin {"idle", "done"}

\* the threads take turns: a thread steps when no other is within a call
NextInTurn == NextWorkers /\ \A w \in Workers : Running(w) => workers'[w] # workers[w]

SpecInTurn == InitWorkers /\ [][NextInTurn]_vars

\* the registry holds every character and every alias of the response
Holds(chars, entries) ==
    \A en \in Elems(entries) :
        /\ HasKey(chars, en.name)
        /\ en.data.has_aliases
              => Elems(en.data.aliases)
                    \subseteq Elems(chars[KeyIndex(chars, en.name)].character.aliases)

\* C21: when the calls of identify_speaker of two threads on one registry
\* have returned, the registry holds every character and every alias that
\* either AI response returned: no update is lost to the other's.
C21_NoLostUpdate ==
    (\A w \in Workers : workers[w].pc = "done")
        => \A w \in Workers : Holds(characters, workers[w].entries)

\* both threads took the AI path and merged an alias into the one record
C21_Witness ==
    /\ \A w \in Workers : workers[w].pc = "done" /\ workers[w].entries # <<>>
    /\ workers[1].entries[1].name = s_Cd /\ workers[2].entries[1].name = s_Cd
    /\ workers[1].descriptor # workers[2].descriptor

=============================================================================
